---- MODULE Spec2Model ----
(***************************************************************************)
(* fast-crud-api: a Fastify plugin that derives REST routes from Mongoose  *)
(* models.  The module models the Method Gate (validators/method.js), the  *)
(* route registration (index, routes/crud.js, routes/nested.js), the       *)
(* Query Builder (utils/query.js) and the list handlers.                   *)
(*                                                                         *)
(* JavaScript strings whose characters matter (resource names, numeric     *)
(* query values) are sequences of one-character strings, so that           *)
(* toLowerCase, parseInt and Number are computed character by character.   *)
(***************************************************************************)
EXTENDS Integers, Sequences, FiniteSets, TLC

VARIABLES
    gateModel,      \* isMethodAllowed: argument modelName
    gateMethod,     \* isMethodAllowed: argument method
    gateAllowed,    \* isMethodAllowed: argument allowedMethods
    gateResult,     \* [done, value]: the value the call returned
    options,        \* createRoutes: the plugin options {models, prefix, methods}
    routes,         \* the calls fastify.get/post/put/delete made so far, in order
    errorHandler,   \* whether fastify.setErrorHandler has been called
    regPc,          \* createRoutes: "start", "crud", "nested" or "done"
    regIdx,         \* createRoutes: index of the model the forEach is at
    referenceFields, \* what setupCrudRoutes returned for that model
    bqFilters,      \* buildQuery: argument filters (absent or given)
    bqOptions,      \* buildQuery: argument options (absent or given)
    bqQuery,        \* [done, calls]: the query buildQuery returned, as the
                    \* chain of calls made on the Mongoose query
    store,          \* the documents of the collection
    request,        \* the request a list handler serves: route, params, query
    hPc,            \* the handler: "received", "awaiting", "done" or "failed"
    buildArgs,      \* [filters, options]: the arguments it gave buildQuery
    hQuery,         \* the query buildQuery returned to it
    countArgs,      \* the filters it gave model.countDocuments
    pending,        \* the promises of Promise.all not yet settled
    hData,          \* what query.exec() resolved to
    hTotal,         \* what model.countDocuments resolved to
    response,       \* what the handler returned, or the error it threw
    docIn,          \* the argument of one call of transformDocument
    docOut,         \* what that call returned
    errArg,         \* the error given to the handler of setErrorHandler
    errReplies,     \* the reply.code(..).send(..) calls made for it, in order
    reply,          \* what the client of a CRUD request was sent
    nextId,         \* the next identifier the ObjectId generator gives
    deleted,        \* the identifiers deleted and not created again since
    storeCalls,     \* the store operations the handler has invoked, in order
    failure,        \* what the store call of a handler by id failed with
    replies         \* the responses the client has been sent for the request

gateVars == <<gateModel, gateMethod, gateAllowed, gateResult>>
regVars  == <<options, routes, errorHandler, regPc, regIdx, referenceFields>>

bqVars   == <<bqFilters, bqOptions, bqQuery>>

listVars == <<store, request, hPc, buildArgs, hQuery, countArgs, pending,
              hData, hTotal, response>>

docVars  == <<docIn, docOut>>

errVars  == <<errArg, errReplies>>

crudVars == <<reply, nextId, deleted>>

opVars   == <<storeCalls, failure, replies>>

vars == <<gateVars, regVars, bqVars, listVars, docVars, errVars, crudVars,
          opVars>>

----------------------------------------------------------------------------
(* Strings *)

\* String.prototype.toLowerCase on one character (the letters the names use).
LowerChar(c) ==
    CASE c = "U" -> "u"
      [] c = "S" -> "s"
      [] c = "E" -> "e"
      [] c = "R" -> "r"
      [] c = "P" -> "p"
      [] c = "O" -> "o"
      [] c = "T" -> "t"
      [] c = "C" -> "c"
      [] c = "A" -> "a"
      [] OTHER -> c

ToLowerCase(s) == [i \in 1..Len(s) |-> LowerChar(s[i])]

Range(s) == {s[i] : i \in 1..Len(s)}

\* The names used as inputs.
S_users == <<"u", "s", "e", "r", "s">>
S_Users == <<"U", "s", "e", "r", "s">>
S_USERS == <<"U", "S", "E", "R", "S">>
S_posts == <<"p", "o", "s", "t", "s">>
S_Posts == <<"P", "o", "s", "t", "s">>
S_tags  == <<"t", "a", "g", "s">>
S_User  == <<"U", "s", "e", "r">>
S_user  == <<"u", "s", "e", "r">>
S_Post  == <<"P", "o", "s", "t">>
S_Tag   == <<"T", "a", "g">>
S_tag   == <<"t", "a", "g">>
S_api   == <<"a", "p", "i">>
S_v1    == <<"v", "1">>
S_id    == <<":", "i", "d">>
S_refId == <<":", "r", "e", "f", "I", "d">>
S_te    == <<"t", "e">>
S_on    == <<"o", "n">>
S_off   == <<"o", "f", "f">>
S_u1    == <<"u", "1">>
S_u2    == <<"u", "2">>
S_zz    == <<"z", "z">>
S_Tea   == <<"T", "e", "a">>
S_mate  == <<"m", "a", "t", "e">>
S_jam   == <<"j", "a", "m">>
S_sortAsc == <<"{", "\"", "_", "i", "d", "\"", ":", "1", "}">>
S_sortBad == <<"_", "i", "d">>

Verbs == {"GET", "POST", "PUT", "DELETE"}

\* A destructured property or parameter: absent (undefined) or given, and the
\* default that destructuring puts in place of undefined.
Absent(v) == [defined |-> FALSE, value |-> v]
Given(v)  == [defined |-> TRUE, value |-> v]
Default(opt, d) == IF opt.defined THEN opt.value ELSE d

----------------------------------------------------------------------------
(* JavaScript numbers: a rational n/d (d > 0), NaN or Infinity *)

Num(i)   == [k |-> "num", n |-> i, d |-> 1]
Rat(n, d) == [k |-> "num", n |-> n, d |-> d]
NaN      == [k |-> "nan", n |-> 0, d |-> 1]
Infinity == [k |-> "inf", n |-> 1, d |-> 1]

IsNum(x) == x.k = "num"

\* a - b, a * b, a / b on non-negative operands of - and /
Minus(a, b) ==
    IF IsNum(a) /\ IsNum(b) THEN Rat(a.n * b.d - b.n * a.d, a.d * b.d)
    ELSE IF a.k = "inf" /\ IsNum(b) THEN Infinity
    ELSE NaN

Times(a, b) ==
    IF IsNum(a) /\ IsNum(b) THEN Rat(a.n * b.n, a.d * b.d)
    ELSE IF a.k = "nan" \/ b.k = "nan" THEN NaN
    ELSE IF (IsNum(a) /\ a.n = 0) \/ (IsNum(b) /\ b.n = 0) THEN NaN
    ELSE Infinity

Divide(a, b) ==
    IF a.k = "nan" \/ b.k = "nan" THEN NaN
    ELSE IF IsNum(a) /\ IsNum(b)
         THEN IF b.n = 0 THEN (IF a.n = 0 THEN NaN ELSE Infinity)
              ELSE Rat(a.n * b.d, a.d * b.n)
    ELSE IF a.k = "inf" /\ b.k = "inf" THEN NaN
    ELSE IF a.k = "inf" THEN Infinity
    ELSE Num(0)

\* Math.ceil
Ceil(a) ==
    IF IsNum(a) THEN Num((a.n + a.d - 1) \div a.d) ELSE a

\* Two numbers denote the same value (what toEqual compares).
SameNumber(a, b) ==
    \/ a.k = b.k /\ a.k # "num"
    \/ IsNum(a) /\ IsNum(b) /\ a.n * b.d = b.n * a.d

----------------------------------------------------------------------------
(* Strings to numbers.  The query values are made of decimal digits, '.'   *)
(* and letters other than e and x: no sign, white space, exponent or radix *)
(* prefix.                                                                 *)

Digits == {"0", "1", "2", "3", "4", "5", "6", "7", "8", "9"}

DigitVal(c) ==
    CASE c = "0" -> 0 [] c = "1" -> 1 [] c = "2" -> 2 [] c = "3" -> 3
      [] c = "4" -> 4 [] c = "5" -> 5 [] c = "6" -> 6 [] c = "7" -> 7
      [] c = "8" -> 8 [] c = "9" -> 9

\* The value of a sequence of digits read as a decimal numeral.
RECURSIVE DecimalValue(_)
DecimalValue(ds) ==
    IF ds = <<>> THEN 0
    ELSE 10 * DecimalValue(SubSeq(ds, 1, Len(ds) - 1)) + DigitVal(ds[Len(ds)])

RECURSIVE Pow10(_)
Pow10(n) == IF n = 0 THEN 1 ELSE 10 * Pow10(n - 1)

\* The length of the longest prefix of s made of digits.
RECURSIVE DigitPrefix(_)
DigitPrefix(s) ==
    IF s = <<>> \/ Head(s) \notin Digits THEN 0 ELSE 1 + DigitPrefix(Tail(s))

\* parseInt(s) of a string: the longest digit prefix, NaN when it is empty.
ParseIntString(s) ==
    LET n == DigitPrefix(s)
    IN  IF n = 0 THEN NaN ELSE Num(DecimalValue(SubSeq(s, 1, n)))

\* The implicit ToNumber(s) of a string operand of `/`: the whole string
\* must be a decimal literal (digits, at most one '.', at least one digit);
\* the empty string is 0.
ToNumberString(s) ==
    LET n == DigitPrefix(s)
        rest == SubSeq(s, n + 1, Len(s))
        frac == IF rest # <<>> /\ Head(rest) = "." THEN Tail(rest) ELSE <<>>
        m == DigitPrefix(frac)
    IN  IF s = <<>> THEN Num(0)
        ELSE IF rest = <<>> THEN Num(DecimalValue(s))
        ELSE IF Head(rest) # "." \/ m # Len(frac) \/ n + m = 0 THEN NaN
        ELSE Rat(DecimalValue(SubSeq(s, 1, n)) * Pow10(m) + DecimalValue(frac),
                 Pow10(m))

\* A query-string parameter after destructuring with a numeric default:
\* the string when present, else the number.
\* parseInt(v) and the v of `total / v`.
ParseInt(v, default) == IF v.defined THEN ParseIntString(v.value) ELSE Num(default)
ToNumber(v, default) == IF v.defined THEN ToNumberString(v.value) ELSE Num(default)

----------------------------------------------------------------------------
(* Method Gate: src/validators/method.js *)

\* The value stored under a key of allowedMethods.
Undefined == [kind |-> "undefined", list |-> <<>>]
Null      == [kind |-> "null", list |-> <<>>]
List(l)   == [kind |-> "list", list |-> l]

\* allowedMethods itself: null, or an object, whose keys are kept in
\* insertion order (Object.keys order).
NullMethods      == [isNull |-> TRUE, entries |-> <<>>]
MethodsObject(e) == [isNull |-> FALSE, entries |-> e]

\* A mutant: the key is compared as written, not ignoring case.
FindKeyExact(entries, modelName, i) ==
    IF \E j \in i..Len(entries) : entries[j].key = modelName
    THEN CHOOSE j \in i..Len(entries) :
            /\ entries[j].key = modelName
            /\ \A k \in i..(j - 1) : entries[k].key # modelName
    ELSE 0

\* Object.keys(allowedMethods).find(k => k.toLowerCase() === modelName.toLowerCase()):
\* the index of the first such key from i on, 0 for undefined.
RECURSIVE FindKey(_, _, _)
FindKey(entries, modelName, i) ==
    IF i > Len(entries) THEN 0
    ELSE IF ToLowerCase(entries[i].key) = ToLowerCase(modelName) THEN i
    ELSE FindKey(entries, modelName, i + 1)

\* Array.prototype.includes
Includes(l, x) == \E i \in 1..Len(l) : l[i] = x

\* A mutant: a model that the allow-list does not name is denied.
IsMethodAllowedDenyUnlisted(modelName, method, allowedMethods) ==
    IF allowedMethods.isNull THEN TRUE
    ELSE LET key == FindKey(allowedMethods.entries, modelName, 1)
         IN  IF key = 0 THEN FALSE
             ELSE IF allowedMethods.entries[key].val.kind # "list" THEN TRUE
             ELSE Includes(allowedMethods.entries[key].val.list, method)

\* A mutant: deny by default.
IsMethodAllowedDenyByDefault(modelName, method, allowedMethods) ==
    IF allowedMethods.isNull THEN FALSE
    ELSE LET key == FindKey(allowedMethods.entries, modelName, 1)
         IN  IF key = 0 THEN FALSE
             ELSE IF allowedMethods.entries[key].val.kind # "list" THEN FALSE
             ELSE Includes(allowedMethods.entries[key].val.list, method)

isMethodAllowed(modelName, method, allowedMethods) ==
    IF allowedMethods.isNull THEN TRUE                       \* !allowedMethods
    ELSE LET key == FindKey(allowedMethods.entries, modelName, 1)
         IN  IF key = 0 THEN TRUE                            \* !key: undefined
             ELSE IF allowedMethods.entries[key].key = <<>> THEN TRUE   \* !key: ""
             ELSE IF allowedMethods.entries[key].val.kind # "list" THEN TRUE
             ELSE Includes(allowedMethods.entries[key].val.list, method)

----------------------------------------------------------------------------
(* The parts of the state a specification does not use stay at these values. *)

GateIdle ==
    /\ gateModel = <<>>
    /\ gateMethod = "GET"
    /\ gateAllowed = NullMethods
    /\ gateResult = [done |-> FALSE, value |-> FALSE]

BqIdle ==
    /\ bqFilters = [defined |-> FALSE, value |-> <<>>]
    /\ bqOptions = [defined |-> FALSE, value |-> <<>>]
    /\ bqQuery = [done |-> FALSE, calls |-> <<>>]

ListIdle ==
    /\ store = {}
    /\ request = [handler |-> "none"]
    /\ hPc = "idle"
    /\ buildArgs = <<>>
    /\ hQuery = <<>>
    /\ countArgs = <<>>
    /\ pending = {}
    /\ hData = <<>>
    /\ hTotal = 0
    /\ response = [kind |-> "none", error |-> "", body |-> <<>>]

DocIdle ==
    /\ docIn = [isNull |-> TRUE, fields |-> <<>>]
    /\ docOut = [done |-> FALSE, isNull |-> TRUE, fields |-> <<>>]

ErrIdle ==
    /\ errArg = [name |-> "", code |-> [kind |-> "undefined", v |-> 0],
                 hasErrors |-> FALSE, errors |-> <<>>,
                 message |-> "", statusCode |-> 0]
    /\ errReplies = [done |-> FALSE, threw |-> FALSE, sends |-> <<>>]

CrudIdle ==
    /\ reply = [sent |-> FALSE, code |-> 0, shape |-> "none", body |-> <<>>]
    /\ nextId = 0
    /\ deleted = {}

OpsIdle ==
    /\ storeCalls = <<>>
    /\ failure = ""
    /\ replies = <<>>

RegIdle ==
    /\ options = [models |-> <<>>]
    /\ routes = <<>>
    /\ errorHandler = FALSE
    /\ regPc = "idle"
    /\ regIdx = 0
    /\ referenceFields = <<>>

----------------------------------------------------------------------------
(* The inputs of the Method Gate *)

MaxKeys == 2

GateKeys   == {S_users, S_Users, S_USERS, S_posts}
GateModels == {S_users, S_Users, S_USERS, S_posts, S_Posts, S_tags}
GateValues == {Undefined, Null, List(<<>>), List(<<"GET", "POST">>)}

\* Objects with at most n keys drawn from keys, no key twice.
AllowListsOver(keys, vals, n) ==
    {NullMethods} \cup
    { MethodsObject(e) : e \in
        { e \in UNION {[1..k -> [key : keys, val : vals]] : k \in 0..n} :
            \A i, j \in 1..Len(e) : i # j => e[i].key # e[j].key } }

GateAllowLists == AllowListsOver(GateKeys, GateValues, MaxKeys)

InitGate ==
    /\ gateModel \in GateModels
    /\ gateMethod \in Verbs
    /\ gateAllowed \in GateAllowLists
    /\ gateResult = [done |-> FALSE, value |-> FALSE]
    /\ RegIdle
    /\ BqIdle
    /\ ListIdle
    /\ DocIdle
    /\ ErrIdle
    /\ CrudIdle
    /\ OpsIdle

\* One call of isMethodAllowed on the chosen arguments.
CallIsMethodAllowed ==
    /\ ~gateResult.done
    /\ gateResult' = [done |-> TRUE,
                      value |-> isMethodAllowed(gateModel, gateMethod, gateAllowed)]
    /\ UNCHANGED <<gateModel, gateMethod, gateAllowed>>
    /\ UNCHANGED <<regVars, bqVars, listVars, docVars, errVars, crudVars, opVars>>

NextGate == CallIsMethodAllowed

SpecGate == InitGate /\ [][NextGate]_vars

----------------------------------------------------------------------------
(* Route registration: src/unnamed/part_000 (createRoutes),                *)
(* src/src/routes/crud.js, src/src/routes/nested.js                        *)

\* A Mongoose model: its name, model.collection.name and model.schema.paths
\* in Object.keys order.  A path is [name, instance, ref]; ref is
\* schemaType.options.ref, <<>> when the path has none.
SchemaPath(n, inst, r) == [name |-> n, instance |-> inst, ref |-> r]

UserModel ==
    [modelName |-> S_User, collection |-> S_users,
     paths |-> << SchemaPath("name", "String", <<>>),
                  SchemaPath("email", "String", <<>>),
                  SchemaPath("_id", "ObjectID", <<>>),
                  SchemaPath("__v", "Number", <<>>) >>]

PostModel ==
    [modelName |-> S_Post, collection |-> S_posts,
     paths |-> << SchemaPath("title", "String", <<>>),
                  SchemaPath("author", "ObjectID", S_User),
                  SchemaPath("status", "String", <<>>),
                  SchemaPath("editor", "ObjectID", S_User),
                  SchemaPath("tag", "ObjectID", S_Tag),
                  SchemaPath("_id", "ObjectID", <<>>),
                  SchemaPath("__v", "Number", <<>>) >>]

TagModel ==
    [modelName |-> S_Tag, collection |-> S_tags,
     paths |-> << SchemaPath("label", "String", <<>>),
                  SchemaPath("owner", "ObjectID", S_User),
                  SchemaPath("_id", "ObjectID", <<>>),
                  SchemaPath("__v", "Number", <<>>) >>]

ModelPool == {UserModel, PostModel, TagModel}

\* crud.js 18-20, nested.js 24-26: the names of the paths of instance 'String'.
SearchableFields(model) ==
    LET IsString(p) == p.instance = "String"
        kept == SelectSeq(model.paths, IsString)
    IN  [i \in 1..Len(kept) |-> kept[i].name]

\* crud.js 23-26: the names of the paths with a truthy options.ref.
ReferenceFieldsOf(model) ==
    LET HasRef(p) == p.ref # <<>>
        kept == SelectSeq(model.paths, HasRef)
    IN  [i \in 1..Len(kept) |-> kept[i].name]

\* model.schema.paths[field]
PathOf(model, field) ==
    model.paths[CHOOSE i \in 1..Len(model.paths) : model.paths[i].name = field]

\* One call fastify.<verb>(path, handler): the handler is named by its kind,
\* the collection of the model it closes over and, for a nested route, the
\* reference field.
Route(verb, path, handler, model, field) ==
    [verb |-> verb, path |-> path, handler |-> handler,
     model |-> model.collection, field |-> field]

\* A mutant: the PUT route is registered under the gate of POST.
CrudRoutesPutUnderPost(model, baseRoute, methods) ==
    LET modelName == model.collection
    IN  (IF isMethodAllowed(modelName, "GET", methods)
         THEN << Route("GET", baseRoute, "list", model, ""),
                 Route("GET", baseRoute \o <<S_id>>, "getById", model, "") >>
         ELSE <<>>)
        \o (IF isMethodAllowed(modelName, "POST", methods)
            THEN << Route("POST", baseRoute, "create", model, ""),
                    Route("PUT", baseRoute \o <<S_id>>, "update", model, "") >>
            ELSE <<>>)
        \o (IF isMethodAllowed(modelName, "DELETE", methods)
            THEN << Route("DELETE", baseRoute \o <<S_id>>, "delete", model, "") >>
            ELSE <<>>)

\* setupCrudRoutes (crud.js 13-154): the routes it registers, in order.
CrudRoutes(model, baseRoute, methods) ==
    LET modelName == model.collection
    IN  (IF isMethodAllowed(modelName, "GET", methods)
         THEN << Route("GET", baseRoute, "list", model, ""),
                 Route("GET", baseRoute \o <<S_id>>, "getById", model, "") >>
         ELSE <<>>)
        \o (IF isMethodAllowed(modelName, "POST", methods)
            THEN << Route("POST", baseRoute, "create", model, "") >>
            ELSE <<>>)
        \o (IF isMethodAllowed(modelName, "PUT", methods)
            THEN << Route("PUT", baseRoute \o <<S_id>>, "update", model, "") >>
            ELSE <<>>)
        \o (IF isMethodAllowed(modelName, "DELETE", methods)
            THEN << Route("DELETE", baseRoute \o <<S_id>>, "delete", model, "") >>
            ELSE <<>>)

\* nested.js 30-31: the path of the nested route of one reference field.
NestedRoute(model, prefix, refField) ==
    LET refModel == ToLowerCase(PathOf(model, refField).ref)
    IN  prefix \o <<refModel, S_refId, model.collection>>

\* A mutant: the nested routes are registered whatever the gate says.
NestedRoutesUngated(model, prefix, refFields, methods) ==
    [i \in 1..Len(refFields) |->
        Route("GET", NestedRoute(model, prefix, refFields[i]),
              "nestedList", model, refFields[i])]

\* setupNestedRoutes (nested.js 14-74): the routes it registers, in order.
NestedRoutes(model, prefix, refFields, methods) ==
    IF ~isMethodAllowed(model.collection, "GET", methods) THEN <<>>
    ELSE [i \in 1..Len(refFields) |->
            Route("GET", NestedRoute(model, prefix, refFields[i]),
                  "nestedList", model, refFields[i])]

\* part_000 15: const { models, prefix = '/api', methods = {} } = options
Prefix  == Default(options.prefix, <<S_api>>)
Methods == Default(options.methods, MethodsObject(<<>>))

MaxModels == 2

RouteKeys   == {S_Users, S_posts}
RouteValues == {Null, List(<<>>), List(<<"GET">>), List(<<"POST", "DELETE">>),
                List(<<"GET", "PUT">>)}
RouteAllowLists == AllowListsOver(RouteKeys, RouteValues, MaxKeys)

\* Lists of at most n models of the pool, none twice.
ModelLists(n) ==
    { l \in UNION {[1..k -> ModelPool] : k \in 0..n} :
        \A i, j \in 1..Len(l) : i # j => l[i] # l[j] }

InitReg ==
    /\ options \in [models : ModelLists(MaxModels),
                    prefix : {Absent(<<>>), Given(<<S_v1>>)},
                    methods : {Absent(NullMethods)} \cup
                              {Given(a) : a \in RouteAllowLists}]
    /\ routes = <<>>
    /\ errorHandler = FALSE
    /\ regPc = "start"
    /\ regIdx = 0
    /\ referenceFields = <<>>
    /\ GateIdle
    /\ BqIdle
    /\ ListIdle
    /\ DocIdle
    /\ ErrIdle
    /\ CrudIdle
    /\ OpsIdle

\* createRoutes up to the forEach (part_000 14-21).
CreateRoutes ==
    /\ regPc = "start"
    /\ errorHandler' = TRUE
    /\ regIdx' = 1
    /\ regPc' = IF Len(options.models) = 0 THEN "done" ELSE "crud"
    /\ UNCHANGED <<options, routes, referenceFields>>
    /\ UNCHANGED <<gateVars, bqVars, listVars, docVars, errVars, crudVars, opVars>>

\* part_000 22-26: setupCrudRoutes for the model the forEach is at.
SetupCrudRoutes ==
    /\ regPc = "crud"
    /\ LET model == options.models[regIdx]
           baseRoute == Prefix \o <<model.collection>>
       IN  /\ routes' = routes \o CrudRoutes(model, baseRoute, Methods)
           /\ referenceFields' = ReferenceFieldsOf(model)
    /\ regPc' = "nested"
    /\ UNCHANGED <<options, errorHandler, regIdx>>
    /\ UNCHANGED <<gateVars, bqVars, listVars, docVars, errVars, crudVars, opVars>>

\* part_000 29: setupNestedRoutes for the same model, then the next model.
SetupNestedRoutes ==
    /\ regPc = "nested"
    /\ LET model == options.models[regIdx]
       IN  routes' = routes \o NestedRoutes(model, Prefix, referenceFields, Methods)
    /\ regIdx' = regIdx + 1
    /\ regPc' = IF regIdx = Len(options.models) THEN "done" ELSE "crud"
    /\ UNCHANGED <<options, errorHandler, referenceFields>>
    /\ UNCHANGED <<gateVars, bqVars, listVars, docVars, errVars, crudVars, opVars>>

NextReg == CreateRoutes \/ SetupCrudRoutes \/ SetupNestedRoutes

SpecReg == InitReg /\ [][NextReg]_vars

----------------------------------------------------------------------------
(* Query Builder: src/unnamed/part_001 (utils/query.js) *)

\* One call on the Mongoose query.
Call(op, arg) == [op |-> op, arg |-> arg]

\* The sort object {_id: -1}
DefaultSort == << <<"_id", -1>> >>

\* A populate directive: a string, or an array of strings.
PopString(f) == [isArray |-> FALSE, items |-> <<f>>]
PopArray(fs) == [isArray |-> TRUE, items |-> fs]

\* if (populate): a string is truthy unless empty, an array always.
PopulateTruthy(p) == p.defined /\ (p.value.isArray \/ p.value.items # <<"">>)

\* The options bag with every property absent: what `options = {}` gives.
NoOptions ==
    [page |-> Absent(NaN), limit |-> Absent(NaN), sort |-> Absent(<<>>),
     search |-> Absent(<<>>), searchFields |-> Absent(<<>>),
     populate |-> Absent(PopString(""))]

\* A filter map with no key: what `filters = {}` gives.
NoFilters == [key \in {} |-> ""]

\* A mutant: skip counts the pages from 0.
SkipOfPageTimesLimit(page, limit) == Times(page, limit)

\* part_001 45: (page - 1) * limit
SkipOf(page, limit) == Times(Minus(page, Num(1)), limit)

\* A mutant: the search term alone adds the OR clause.
SearchAppliesWithoutFields(search, searchFields) ==
    search.defined /\ search.value # <<>>

\* part_001 27: if (search && searchFields.length > 0)
SearchApplies(search, searchFields) ==
    search.defined /\ search.value # <<>> /\ Len(searchFields) > 0

\* A mutant: the fields are populated from the last to the first.
PopulateCallsReversed(populate) ==
    IF PopulateTruthy(populate)
    THEN [i \in 1..Len(populate.value.items) |->
            Call("populate",
                 populate.value.items[Len(populate.value.items) + 1 - i])]
    ELSE <<>>

\* part_001 35-40: one query.populate(field) per field, a string being one
\* field.
PopulateCalls(populate) ==
    IF PopulateTruthy(populate)
    THEN [i \in 1..Len(populate.value.items) |->
            Call("populate", populate.value.items[i])]
    ELSE <<>>

\* buildQuery with the defaults of lines 14-22 applied.
BuildQueryWith(filters, opts) ==
    LET page == Default(opts.page, Num(1))
        limit == Default(opts.limit, Num(10))
        sort == Default(opts.sort, DefaultSort)
        search == opts.search
        searchFields == Default(opts.searchFields, <<>>)
        populate == opts.populate
        searchConditions ==
            [i \in 1..Len(searchFields) |->
                [field |-> searchFields[i], regex |-> search.value, options |-> "i"]]
    IN  << Call("find", filters) >>
        \o (IF SearchApplies(search, searchFields)
            THEN << Call("or", searchConditions) >> ELSE <<>>)
        \o PopulateCalls(populate)
        \o << Call("sort", sort),
              Call("skip", SkipOf(page, limit)),
              Call("limit", limit) >>

\* buildQuery(model, filters = {}, options = {}) (part_001 14-49): the query
\* it returns, not executed.
buildQuery(filters, opts) ==
    BuildQueryWith(Default(filters, NoFilters), Default(opts, NoOptions))

MaxPage  == 3
MaxLimit == 2

BqPages  == {Num(i) : i \in 1..MaxPage} \cup {NaN}
BqLimits == {Num(i) : i \in 1..MaxLimit} \cup {Num(10), Num(20), NaN}

BqFilterMaps == {NoFilters, [key \in {"status"} |-> "active"]}

BqOptionBags ==
    [page : {Absent(NaN)} \cup {Given(x) : x \in BqPages},
     limit : {Absent(NaN)} \cup {Given(x) : x \in BqLimits},
     sort : {Absent(<<>>), Given(<< <<"name", 1>> >>)},
     search : {Absent(<<>>), Given(<<>>), Given(S_te)},
     searchFields : {Absent(<<>>), Given(<<>>), Given(<<"title", "status">>)},
     populate : {Absent(PopString("")), Given(PopString("author")),
                 Given(PopArray(<<"author", "tag">>))}]

InitBq ==
    /\ bqFilters \in {Absent(NoFilters)} \cup {Given(f) : f \in BqFilterMaps}
    /\ bqOptions \in {Absent(NoOptions)} \cup {Given(o) : o \in BqOptionBags}
    /\ (~bqFilters.defined => ~bqOptions.defined)     \* positional parameters
    /\ bqQuery = [done |-> FALSE, calls |-> <<>>]
    /\ GateIdle
    /\ RegIdle
    /\ ListIdle
    /\ DocIdle
    /\ ErrIdle
    /\ CrudIdle
    /\ OpsIdle

\* One call of buildQuery on the chosen arguments.
CallBuildQuery ==
    /\ ~bqQuery.done
    /\ bqQuery' = [done |-> TRUE, calls |-> buildQuery(bqFilters, bqOptions)]
    /\ UNCHANGED <<bqFilters, bqOptions>>
    /\ UNCHANGED <<gateVars, regVars, listVars, docVars, errVars, crudVars, opVars>>

NextBq == CallBuildQuery

SpecBq == InitBq /\ [][NextBq]_vars

----------------------------------------------------------------------------
(* Documents and the store (Mongoose, as the handlers use it) *)

\* The values of the fields of a document and of a filter.
Str(s)    == [kind |-> "string", s |-> s]
Oid(s)    == [kind |-> "ObjectId", s |-> s]
NumVal(s) == [kind |-> "number", s |-> s]

\* A document: its fields in order.
Field(k, v) == [key |-> k, val |-> v]
Keys(doc) == {doc[i].key : i \in 1..Len(doc)}
Has(doc, k) == \E i \in 1..Len(doc) : doc[i].key = k
Get(doc, k) == doc[CHOOSE i \in 1..Len(doc) : doc[i].key = k].val

\* An identifier string the ObjectId cast accepts: here a letter u or p and
\* a digit (in place of 24 hexadecimal digits).
ValidId(s) == Len(s) = 2 /\ s[1] \in {"u", "p"} /\ s[2] \in Digits

\* schemaType.cast(value) of an ObjectId path: the identifier, or a CastError.
Cast(s) == IF ValidId(s) THEN [ok |-> TRUE, value |-> Oid(s)]
           ELSE [ok |-> FALSE, value |-> [kind |-> "CastError", s |-> s]]

\* JSON.parse of the sort parameter: the sort object, or a SyntaxError.
JsonParse(s) ==
    IF s = S_sortAsc THEN [ok |-> TRUE, value |-> << <<"_id", 1>> >>]
    ELSE [ok |-> FALSE, value |-> <<>>]

DigitChar(i) ==
    CASE i = 0 -> "0" [] i = 1 -> "1" [] i = 2 -> "2" [] i = 3 -> "3"
      [] i = 4 -> "4" [] i = 5 -> "5" [] i = 6 -> "6" [] i = 7 -> "7"
      [] i = 8 -> "8" [] i = 9 -> "9"

\* The i-th post of the collection 'posts'.
PostDoc(i) ==
    << Field("_id", Oid(<<"p", DigitChar(i)>>)),
       Field("title", Str(CASE i % 3 = 1 -> S_Tea [] i % 3 = 2 -> S_mate
                            [] OTHER -> S_jam)),
       Field("author", Oid(IF i % 2 = 1 THEN S_u1 ELSE S_u2)),
       Field("status", Str(IF i <= 2 THEN S_on ELSE S_off)),
       Field("__v", NumVal(<<"0">>)) >>

\* The order of the _id values.
IdOrder(doc) == DigitVal(Get(doc, "_id").s[2])

\* Mongoose casts the filter values of a query by the schema: a filter on an
\* ObjectId path whose value is no identifier makes the query fail (CastError).
QueryCastError(model, filters) ==
    \E k \in DOMAIN filters :
        /\ \E i \in 1..Len(model.paths) :
              model.paths[i].name = k /\ model.paths[i].instance = "ObjectID"
        /\ ~ValidId(filters[k].s)

\* A document satisfies an equality filter map.
MatchesFilters(doc, filters) ==
    \A k \in DOMAIN filters : Has(doc, k) /\ Get(doc, k).s = filters[k].s

\* {$regex: search, $options: 'i'} on a string of letters: a substring match
\* ignoring case.
RegexMatches(text, search) ==
    \E i \in 1..(Len(text) - Len(search) + 1) :
        ToLowerCase(SubSeq(text, i, i + Len(search) - 1)) = ToLowerCase(search)

\* model.countDocuments(filters)
CountDocuments(docs, filters) ==
    Cardinality({d \in docs : MatchesFilters(d, filters)})

\* The documents of a set ordered by _id, ascending (dir = 1) or descending.
RECURSIVE SortById(_, _)
SortById(docs, dir) ==
    IF docs = {} THEN <<>>
    ELSE LET first == CHOOSE d \in docs :
                        \A e \in docs : dir * IdOrder(d) <= dir * IdOrder(e)
         IN  <<first>> \o SortById(docs \ {first}, dir)

CallsOf(calls, op) == SelectSeq(calls, LAMBDA c : c.op = op)

\* query.exec() can resolve: the filters cast and skip and limit are numbers.
ExecCanResolve(model, calls) ==
    /\ ~QueryCastError(model, CallsOf(calls, "find")[1].arg)
    /\ IsNum(CallsOf(calls, "skip")[1].arg)
    /\ IsNum(CallsOf(calls, "limit")[1].arg)

\* query.exec(): the documents the built query selects, in order.  (The
\* populate calls do not change which documents are returned.)
Exec(docs, calls) ==
    LET filters == CallsOf(calls, "find")[1].arg
        ors == CallsOf(calls, "or")
        sort == CallsOf(calls, "sort")[1].arg
        skip == CallsOf(calls, "skip")[1].arg.n
        limit == CallsOf(calls, "limit")[1].arg.n
        OrHolds(d) ==
            \A j \in 1..Len(ors) :
                \E i \in 1..Len(ors[j].arg) :
                    /\ Has(d, ors[j].arg[i].field)
                    /\ RegexMatches(Get(d, ors[j].arg[i].field).s,
                                    ors[j].arg[i].regex)
        found == {d \in docs : MatchesFilters(d, filters) /\ OrHolds(d)}
        sorted == SortById(found, sort[1][2])
        last == IF skip + limit < Len(sorted) THEN skip + limit ELSE Len(sorted)
    IN  SubSeq(sorted, skip + 1, last)

----------------------------------------------------------------------------
(* Document Transformer: src/src/utils/document.js *)

\* ObjectId values become their string, the others stay.
Stringify(v) == IF v.kind = "ObjectId" THEN Str(v.s) ELSE v

\* transformDocument(doc) of a document (7-24): {id: _id.toString(), ...rest}
\* where rest is doc without _id and __v; a field of rest named id keeps the
\* first position and takes the value of rest.
transformDocument(doc) ==
    LET rest == SelectSeq(doc, LAMBDA f : f.key \notin {"_id", "__v"})
        others == SelectSeq(rest, LAMBDA f : f.key # "id")
        id == IF Has(rest, "id") THEN Stringify(Get(rest, "id"))
              ELSE Str(Get(doc, "_id").s)
    IN  <<Field("id", id)>>
        \o [i \in 1..Len(others) |-> Field(others[i].key, Stringify(others[i].val))]

\* A field value null.
NullVal == [kind |-> "null", s |-> <<>>]

\* The argument of transformDocument: null, or a record.
NullDoc == [isNull |-> TRUE, fields |-> <<>>]
Record(fs) == [isNull |-> FALSE, fields |-> fs]

\* transformDocument(doc) of any argument (7-24): `if (!doc) return null`.
Transform(d) == IF d.isNull THEN NullDoc ELSE Record(transformDocument(d.fields))

MaxFields == 2

\* The _id of a record: an ObjectId, or a string or a number of a schema
\* that declares its own _id.
DocIds == {Oid(<<"p", "1">>), Str(S_u1), NumVal(<<"7">>)}

\* The user fields a record may carry, one of them named id.
UserFieldPool ==
    {Field("title", Str(S_Tea)), Field("author", Oid(S_u1)),
     Field("note", NullVal), Field("id", NumVal(<<"7">>)),
     Field("id", Str(S_zz)), Field("id", Oid(S_u2))}

\* The lists of at most n user fields, no key twice.
RECURSIVE UserFieldLists(_)
UserFieldLists(n) ==
    IF n = 0 THEN {<<>>}
    ELSE LET shorter == UserFieldLists(n - 1)
             longer == {x \in shorter \X UserFieldPool : x[2].key \notin Keys(x[1])}
         IN  shorter \cup {Append(x[1], x[2]) : x \in longer}

\* Records as the store gives them: _id, the user fields, and __v unless the
\* schema has no version key.
DocInputs ==
    {NullDoc} \cup
    {Record(<<Field("_id", id)>> \o fs \o v) :
        id \in DocIds, fs \in UserFieldLists(MaxFields),
        v \in {<<>>, <<Field("__v", NumVal(<<"0">>))>>}}

InitDoc ==
    /\ docIn \in DocInputs
    /\ docOut = [done |-> FALSE, isNull |-> TRUE, fields |-> <<>>]
    /\ GateIdle
    /\ RegIdle
    /\ BqIdle
    /\ ListIdle
    /\ ErrIdle
    /\ CrudIdle
    /\ OpsIdle

\* One call of transformDocument on the chosen argument.
CallTransformDocument ==
    /\ ~docOut.done
    /\ docOut' = [done |-> TRUE, isNull |-> Transform(docIn).isNull,
                  fields |-> Transform(docIn).fields]
    /\ UNCHANGED docIn
    /\ UNCHANGED <<gateVars, regVars, bqVars, listVars, errVars, crudVars, opVars>>

NextDoc == CallTransformDocument

SpecDoc == InitDoc /\ [][NextDoc]_vars

----------------------------------------------------------------------------
(* Error Translator: src/src/middleware/error-handler.js *)

\* error.code: undefined, a number, or a string.
NoCode == [kind |-> "undefined", v |-> 0]
NumCode(n) == [kind |-> "number", v |-> n]
StrCode(n) == [kind |-> "string", v |-> n]

\* An error object: name, code, errors (the sub-errors of Object.values, or
\* no such property), message and statusCode (0: none).
ErrorObject(name, code, hasErrors, errors, message, statusCode) ==
    [name |-> name, code |-> code, hasErrors |-> hasErrors, errors |-> errors,
     message |-> message, statusCode |-> statusCode]

SubError(path, message) == [path |-> path, message |-> message]

\* A mutant: every error body carries details.
ErrorBodyWithDetails(kind, message) ==
    [error |-> kind, message |-> message, hasDetails |-> TRUE, details |-> <<>>]

\* The body of a reply of the error shape.
ErrorBody(kind, message) ==
    [error |-> kind, message |-> message, hasDetails |-> FALSE, details |-> <<>>]

\* 9-17: details: Object.values(error.errors).map(err => ({field, message}))
ValidationBody(err) ==
    [error |-> "ValidationError", message |-> "Invalid data provided",
     hasDetails |-> TRUE,
     details |-> [i \in 1..Len(err.errors) |->
                    [field |-> err.errors[i].path,
                     message |-> err.errors[i].message]]]

\* A mutant: the catch-all reply carries the message of the error.
InternalErrorBodyEchoing(err) == ErrorBody("InternalError", err.message)

\* 37-40: the body of the catch-all reply.
InternalErrorBody(err) ==
    ErrorBody("InternalError", "An internal server error occurred")

\* reply.code(c).send(body)
Send(c, body) == [code |-> c, body |-> body]

\* The handler given to setErrorHandler (6-41): the replies it sends, or the
\* TypeError Object.values throws when error.errors is undefined.
ErrorHandler(err) ==
    IF err.name = "ValidationError"
    THEN IF err.hasErrors
         THEN [threw |-> FALSE, sends |-> <<Send(400, ValidationBody(err))>>]
         ELSE [threw |-> TRUE, sends |-> <<>>]
    ELSE IF err.name = "CastError"
    THEN [threw |-> FALSE,
          sends |-> <<Send(400, ErrorBody("InvalidId", "Invalid ID format provided"))>>]
    ELSE IF err.code = NumCode(11000)
    THEN [threw |-> FALSE,
          sends |-> <<Send(409, ErrorBody("DuplicateError",
                                "A record with this value already exists"))>>]
    ELSE [threw |-> FALSE, sends |-> <<Send(500, InternalErrorBody(err))>>]

MaxSubErrors == 2

ErrorNames == {"ValidationError", "CastError", "MongoServerError", "Error"}
ErrorCodes == {NoCode, NumCode(11000), NumCode(121), StrCode(11000)}
ErrorMessages == {"E11000 duplicate key", "connect ECONNREFUSED"}
ErrorStatusCodes == {0, 400}

\* The sub-errors of a validation error, at most n.
SubErrorLists(n) ==
    {[i \in 1..k |-> SubError(IF i % 2 = 1 THEN "title" ELSE "status",
                              "Path is required.")] : k \in 0..n}

ErrorInputs ==
    {ErrorObject(n, c, FALSE, <<>>, m, sc) :
        n \in ErrorNames, c \in ErrorCodes, m \in ErrorMessages,
        sc \in ErrorStatusCodes}
    \cup
    {ErrorObject(n, c, TRUE, es, m, sc) :
        n \in ErrorNames, c \in ErrorCodes, m \in ErrorMessages,
        sc \in ErrorStatusCodes, es \in SubErrorLists(MaxSubErrors)}

InitErr ==
    /\ errArg \in ErrorInputs
    /\ errReplies = [done |-> FALSE, threw |-> FALSE, sends |-> <<>>]
    /\ GateIdle
    /\ RegIdle
    /\ BqIdle
    /\ ListIdle
    /\ DocIdle
    /\ CrudIdle
    /\ OpsIdle

\* Fastify calls the error handler on the error.
CallErrorHandler ==
    /\ ~errReplies.done
    /\ errReplies' = [done |-> TRUE, threw |-> ErrorHandler(errArg).threw,
                      sends |-> ErrorHandler(errArg).sends]
    /\ UNCHANGED errArg
    /\ UNCHANGED <<gateVars, regVars, bqVars, listVars, docVars, crudVars, opVars>>

NextErr == CallErrorHandler

SpecErr == InitErr /\ [][NextErr]_vars

----------------------------------------------------------------------------
(* The list handler (crud.js 30-72) and the nested list handler            *)
(* (nested.js 34-72), serving one request on the Post model                *)

PagingKeys == {"page", "limit", "sort", "search", "populate"}

\* A property of request.query: absent or given.
Prop(query, k, none) == IF k \in DOMAIN query THEN Given(query[k]) ELSE Absent(none)

\* const { page, limit, sort, search, populate, ...filters } = request.query
RestOf(query) == [k \in (DOMAIN query) \ PagingKeys |-> Str(query[k])]

\* crud.js 41-45: referenceFields.forEach(field => { if (filters[field])
\* filters[field] = cast(filters[field]) }), from field i on; a cast that
\* throws ends the handler.
RECURSIVE CastReferenceFilters(_, _, _)
CastReferenceFilters(filters, fields, i) ==
    IF i > Len(fields) THEN [ok |-> TRUE, filters |-> filters]
    ELSE IF fields[i] \in DOMAIN filters /\ filters[fields[i]].s # <<>>
         THEN LET c == Cast(filters[fields[i]].s)
              IN  IF c.ok
                  THEN CastReferenceFilters(
                          [filters EXCEPT ![fields[i]] = c.value], fields, i + 1)
                  ELSE [ok |-> FALSE, filters |-> filters]
    ELSE CastReferenceFilters(filters, fields, i + 1)

\* A mutant: the reference filter is set before the query filters are spread.
SetReferenceFilterFirst(filters, refField, refId) ==
    LET c == Cast(refId)
    IN  IF c.ok
        THEN [ok |-> TRUE,
              filters |-> [k \in (DOMAIN filters) \cup {refField} |->
                              IF k \in DOMAIN filters THEN filters[k] ELSE c.value]]
        ELSE [ok |-> FALSE, filters |-> filters]

\* nested.js 44-45: filters[refField] = cast(refId)
SetReferenceFilter(filters, refField, refId) ==
    LET c == Cast(refId)
    IN  IF c.ok
        THEN [ok |-> TRUE,
              filters |-> [k \in (DOMAIN filters) \cup {refField} |->
                              IF k = refField THEN c.value ELSE filters[k]]]
        ELSE [ok |-> FALSE, filters |-> filters]

\* The filters the handler passes on, or the failure of a cast.
FiltersOf(req, model) ==
    IF req.handler = "list"
    THEN CastReferenceFilters(RestOf(req.query), ReferenceFieldsOf(model), 1)
    ELSE SetReferenceFilter(RestOf(req.query), req.field, req.refId)

\* A mutant: a sort that does not parse is replaced by the default.
SortQueryOrDefault(query) ==
    LET sort == Prop(query, "sort", <<>>)
    IN  IF sort.defined /\ sort.value # <<>> /\ JsonParse(sort.value).ok
        THEN JsonParse(sort.value)
        ELSE [ok |-> TRUE, value |-> DefaultSort]

\* const sortQuery = sort ? JSON.parse(sort) : { _id: -1 }
SortQueryOf(query) ==
    LET sort == Prop(query, "sort", <<>>)
    IN  IF sort.defined /\ sort.value # <<>> THEN JsonParse(sort.value)
        ELSE [ok |-> TRUE, value |-> DefaultSort]

\* The options object the handler gives buildQuery (49-56).
OptionsOf(query, model) ==
    [page |-> Given(ParseInt(Prop(query, "page", <<>>), 1)),
     limit |-> Given(ParseInt(Prop(query, "limit", <<>>), 10)),
     sort |-> Given(SortQueryOf(query).value),
     search |-> Prop(query, "search", <<>>),
     searchFields |-> Given(SearchableFields(model)),
     populate |-> IF "populate" \in DOMAIN query
                  THEN Given(PopString(query["populate"]))
                  ELSE Absent(PopString(""))]

\* crud.js 69, nested.js 69: Math.ceil(total / limit), limit being the
\* destructured query value (a string) or its default 10.
PagesOf(total, query) ==
    Ceil(Divide(Num(total), ToNumber(Prop(query, "limit", <<>>), 10)))

\* A mutant: the count is given the filters narrowed by the search term.
CountFiltersWithSearch(filters, query) ==
    IF "search" \in DOMAIN query
    THEN [k \in (DOMAIN filters) \cup {"title"} |->
             IF k = "title" THEN Str(query["search"]) ELSE filters[k]]
    ELSE filters

\* crud.js 60, nested.js 60: countDocuments is given the filters object.
CountFilters(filters, query) == filters

\* The body the handler returns (63-71).
ListBody(data, total, query) ==
    [data |-> [i \in 1..Len(data) |-> transformDocument(data[i])],
     pagination |-> [total |-> Num(total),
                     page |-> ParseInt(Prop(query, "page", <<>>), 1),
                     limit |-> ParseInt(Prop(query, "limit", <<>>), 10),
                     pages |-> PagesOf(total, query)]]

NoBody == [data |-> <<>>, pagination |-> <<>>]

Returned(body) == [kind |-> "ok", error |-> "", body |-> body]
Threw(error)   == [kind |-> "error", error |-> error, body |-> NoBody]

MaxRecords == 3

\* Query strings: each parameter absent or one of a few values.
PagingParams ==
    [page : {Absent(<<>>), Given(<<"2">>), Given(<<"a">>)},
     limit : {Absent(<<>>), Given(<<"1">>), Given(<<"1", ".", "5">>),
              Given(<<"2", "a">>), Given(<<"a">>)},
     sort : {Absent(<<>>), Given(S_sortAsc), Given(S_sortBad)},
     search : {Absent(<<>>), Given(S_te)},
     populate : {Absent(""), Given("author")}]

FilterParams ==
    [status : {Absent(<<>>), Given(S_on)},
     author : {Absent(<<>>), Given(S_u1), Given(<<>>)}]

\* The query-string map of the parameters that are given.
QueryOf(r) == [k \in {k \in DOMAIN r : r[k].defined} |-> r[k].value]

Merge(q1, q2) ==
    [k \in (DOMAIN q1) \cup (DOMAIN q2) |-> IF k \in DOMAIN q1 THEN q1[k] ELSE q2[k]]

Queries == {Merge(QueryOf(pg), QueryOf(f)) : pg \in PagingParams, f \in FilterParams}

Requests ==
    { [handler |-> "list", field |-> "", refId |-> <<>>, query |-> q] : q \in Queries }
    \cup
    { [handler |-> "nestedList", field |-> "author", refId |-> id, query |-> q] :
        q \in Queries, id \in {S_u2, S_zz} }

InitList ==
    /\ store \in {{PostDoc(i) : i \in 1..n} : n \in 0..MaxRecords}
    /\ request \in Requests
    /\ hPc = "received"
    /\ buildArgs = <<>>
    /\ hQuery = <<>>
    /\ countArgs = <<>>
    /\ pending = {}
    /\ hData = <<>>
    /\ hTotal = 0
    /\ response = [kind |-> "none", error |-> "", body |-> NoBody]
    /\ GateIdle
    /\ RegIdle
    /\ BqIdle
    /\ DocIdle
    /\ ErrIdle
    /\ CrudIdle
    /\ OpsIdle


\* The store operation of a handler by id or of POST: model.findById(id)
\* (crud.js 79), doc.save() (106), model.findByIdAndUpdate (117) and
\* model.findByIdAndDelete (140).
StoreOpOf(handler) ==
    CASE handler = "getById" -> "findById"
      [] handler = "create" -> "save"
      [] handler = "update" -> "findByIdAndUpdate"
      [] handler = "delete" -> "findByIdAndDelete"

\* A mutant: the handler invokes its last store operation a second time.
StoreCallsTwice(handler) ==
    IF handler \in {"list", "nestedList"}
    THEN <<"exec", "countDocuments", "countDocuments">>
    ELSE <<StoreOpOf(handler), StoreOpOf(handler)>>

\* The store operations a handler invokes for one request, in order: the
\* list handlers query.exec() and model.countDocuments(filters) (58-61), the
\* others their one operation.
StoreCallsOf(handler) ==
    IF handler \in {"list", "nestedList"}
    THEN <<"exec", "countDocuments">>
    ELSE <<StoreOpOf(handler)>>

\* The handler up to `await Promise.all([...])`: filters, sort, buildQuery,
\* then query.exec() and model.countDocuments(filters) are both called.  A
\* cast or JSON.parse that throws ends it with that error.
HandlerStart ==
    /\ hPc = "received"
    /\ request.handler \in {"list", "nestedList"}
    /\ LET f == FiltersOf(request, PostModel)
           sortQuery == SortQueryOf(request.query)
           opts == OptionsOf(request.query, PostModel)
       IN  IF ~f.ok \/ ~sortQuery.ok
           THEN /\ hPc' = "failed"
                /\ response' = Threw(IF ~f.ok THEN "CastError" ELSE "SyntaxError")
                /\ UNCHANGED <<buildArgs, hQuery, countArgs, pending>>
           ELSE /\ hPc' = "awaiting"
                /\ buildArgs' = [filters |-> f.filters, options |-> opts]
                /\ hQuery' = buildQuery(Given(f.filters), Given(opts))
                /\ countArgs' = CountFilters(f.filters, request.query)
                /\ pending' = {"exec", "count"}
                /\ UNCHANGED response
    /\ storeCalls' = storeCalls \o (IF hPc' = "awaiting"
                                     THEN StoreCallsOf(request.handler)
                                     ELSE <<>>)
    /\ UNCHANGED <<store, request, hData, hTotal, failure, replies>>
    /\ UNCHANGED <<gateVars, regVars, bqVars, docVars, errVars, crudVars>>

\* query.exec() resolves.
ExecResolves ==
    /\ hPc = "awaiting"
    /\ "exec" \in pending
    /\ ExecCanResolve(PostModel, hQuery)
    /\ hData' = Exec(store, hQuery)
    /\ pending' = pending \ {"exec"}
    /\ UNCHANGED <<store, request, hPc, buildArgs, hQuery, countArgs, hTotal, response>>
    /\ UNCHANGED <<gateVars, regVars, bqVars, docVars, errVars, crudVars, opVars>>

\* model.countDocuments(filters) resolves.
CountResolves ==
    /\ hPc = "awaiting"
    /\ "count" \in pending
    /\ ~QueryCastError(PostModel, countArgs)
    /\ hTotal' = CountDocuments(store, countArgs)
    /\ pending' = pending \ {"count"}
    /\ UNCHANGED <<store, request, hPc, buildArgs, hQuery, countArgs, hData, response>>
    /\ UNCHANGED <<gateVars, regVars, bqVars, docVars, errVars, crudVars, opVars>>

\* One of the two promises rejects (a cast failure of the query, or a
\* failure of the store): Promise.all rejects and the handler throws.
StoreRejects ==
    /\ hPc = "awaiting"
    /\ \E p \in pending :
          /\ hPc' = "failed"
          /\ response' =
                Threw(IF QueryCastError(PostModel, countArgs) THEN "CastError"
                      ELSE "MongoError")
          /\ pending' = pending \ {p}
    /\ failure' = response'.error
    /\ UNCHANGED <<store, request, buildArgs, hQuery, countArgs, hData, hTotal>>
    /\ UNCHANGED <<storeCalls, replies>>
    /\ UNCHANGED <<gateVars, regVars, bqVars, docVars, errVars, crudVars>>

\* A mutant: the first promise to resolve lets the handler go on.
FirstSettled(p) == p # {"exec", "count"}

\* A mutant: the handler awaits something that never settles.
NoneSettled(p) == FALSE

\* await Promise.all([...]) (58-61) goes on when every promise has resolved.
AllSettled(p) == p = {}

\* Both promises resolved: the handler returns {data, pagination}.
HandlerReturns ==
    /\ hPc = "awaiting"
    /\ AllSettled(pending)
    /\ hPc' = "done"
    /\ response' = Returned(ListBody(hData, hTotal, request.query))
    /\ UNCHANGED <<store, request, buildArgs, hQuery, countArgs, pending, hData, hTotal>>
    /\ UNCHANGED <<gateVars, regVars, bqVars, docVars, errVars, crudVars, opVars>>

NextList ==
    HandlerStart \/ ExecResolves \/ CountResolves \/ StoreRejects \/ HandlerReturns

SpecList == InitList /\ [][NextList]_vars

----------------------------------------------------------------------------
(* The handlers of one resource serving requests one after another:        *)
(* crud.js 75-151 by id and create, the list handlers as above, and        *)
(* Fastify's reply to the client                                           *)

IdOf(doc) == Get(doc, "_id").s
IdsOf(docs) == {IdOf(d) : d \in docs}

\* The document of an identifier, or null.
FindById(docs, id) ==
    IF id \in IdsOf(docs)
    THEN [found |-> TRUE, doc |-> CHOOSE d \in docs : IdOf(d) = id]
    ELSE [found |-> FALSE, doc |-> <<>>]

\* The sub-errors the validators of the schema give for a body (doc.save(),
\* runValidators: true): here a title must not be the empty string.
Validate(body) ==
    IF Has(body, "title") /\ Get(body, "title").s = <<>>
    THEN <<SubError("title", "Path is required.")>>
    ELSE <<>>

\* The errors Mongoose and the driver throw.
ValidationErrorOf(body) ==
    ErrorObject("ValidationError", NoCode, TRUE, Validate(body),
                "Validation failed", 0)
CastErrorOf(id) ==
    ErrorObject("CastError", NoCode, FALSE, <<>>, "Cast to ObjectId failed", 0)
DuplicateKeyError ==
    ErrorObject("MongoServerError", NumCode(11000), FALSE, <<>>,
                "E11000 duplicate key", 0)
NamedError(name) ==
    ErrorObject(name, NoCode, FALSE, <<>>, "connect ECONNREFUSED", 0)

\* new model(body): the document of a body, _id generated unless given.
NewDoc(body, generated) ==
    <<Field("_id", Oid(IF Has(body, "_id") THEN Get(body, "_id").s ELSE generated))>>
    \o SelectSeq(body, LAMBDA f : f.key # "_id")
    \o <<Field("__v", NumVal(<<"0">>))>>

\* The document with the fields of the update set.
SetFields(doc, body) ==
    [i \in 1..Len(doc) |->
        IF Has(body, doc[i].key) THEN Field(doc[i].key, Get(body, doc[i].key))
        ELSE doc[i]]
    \o SelectSeq(body, LAMBDA f : ~Has(doc, f.key))

\* A mutant: the update inserts the document when there is none (upsert).
FindByIdAndUpdateUpsert(docs, id, body) ==
    LET f == FindById(docs, id)
        new == IF f.found THEN SetFields(f.doc, body)
               ELSE NewDoc(<<Field("_id", Str(id))>> \o body, id)
    IN  [found |-> TRUE, doc |-> new,
         docs |-> (docs \ {d \in docs : IdOf(d) = id}) \cup {new}]

\* model.findByIdAndUpdate(id, body, {new: true, runValidators: true})
\* (116-120) once the id is cast and the body validated: the updated
\* document or null, and the collection after it.
FindByIdAndUpdate(docs, id, body) ==
    LET f == FindById(docs, id)
    IN  IF f.found
        THEN [found |-> TRUE, doc |-> SetFields(f.doc, body),
              docs |-> (docs \ {f.doc}) \cup {SetFields(f.doc, body)}]
        ELSE [found |-> FALSE, doc |-> <<>>, docs |-> docs]

\* A mutant: the delete finds the document and leaves it.
FindByIdAndKeep(docs, id) ==
    [found |-> FindById(docs, id).found, docs |-> docs]

\* model.findByIdAndDelete(id) (139) once the id is cast: whether there was
\* a document, and the collection after it.
FindByIdAndDelete(docs, id) ==
    [found |-> FindById(docs, id).found,
     docs |-> {d \in docs : IdOf(d) # id}]

\* What the client is sent.
Sent(send, shape) ==
    [sent |-> TRUE, code |-> send.code, shape |-> shape, body |-> send.body]
NotSent == [sent |-> FALSE, code |-> 0, shape |-> "none", body |-> <<>>]

\* A handler throws: Fastify gives the error to the handler of
\* setErrorHandler, which replies.
Thrown(err) == Sent(ErrorHandler(err).sends[1], "error")

\* 91-94, 123-126, 142-145
NotFound == Sent(Send(404, ErrorBody("NotFound", "Resource not found")), "error")

\* return transformDocument(doc): Fastify sends the value with status 200.
ReturnedDoc(doc) == Sent(Send(200, [doc |-> transformDocument(doc)]), "doc")

\* 149: return { success: true }
Success == Sent(Send(200, [success |-> TRUE]), "success")

\* 63-71: the {data, pagination} body of the list handlers.
ListReply(body) == Sent(Send(200, body), "list")

MaxGenerated == 1

\* The first identifier the generator gives: none of the stored ones.
FirstGenerated == MaxRecords + 2

GeneratedId(n) == <<"p", DigitChar(n)>>

\* The identifiers of the path parameter :id, the last one malformed.
CrudIds == {<<"p", "1">>, <<"p", "2">>, S_zz}

\* The bodies of PUT, the second one rejected by the validators.
UpdateBodies ==
    {<<Field("title", Str(S_jam))>>, <<Field("title", Str(<<>>))>>}

\* The bodies of POST: with or without an _id of their own.
CreateBodies ==
    UpdateBodies \cup
    {<<Field("_id", Str(id)), Field("title", Str(S_jam))>> :
        id \in {<<"p", "1">>, <<"p", "2">>}}

\* The query strings of the list requests.
CrudQueries ==
    {QueryOf([limit |-> Absent(<<>>)]), QueryOf([limit |-> Given(<<"1">>)]),
     QueryOf([sort |-> Given(S_sortBad)]), QueryOf([search |-> Given(S_te)])}

Req(handler, field, refId, query, id, body) ==
    [handler |-> handler, field |-> field, refId |-> refId, query |-> query,
     id |-> id, body |-> body]

CrudRequests ==
    {Req("list", "", <<>>, q, <<>>, <<>>) : q \in CrudQueries}
    \cup {Req("nestedList", "author", S_u1, QueryOf([limit |-> Absent(<<>>)]),
              <<>>, <<>>)}
    \cup {Req("getById", "", <<>>, QueryOf([limit |-> Absent(<<>>)]), id, <<>>) :
              id \in CrudIds}
    \cup {Req("create", "", <<>>, QueryOf([limit |-> Absent(<<>>)]), <<>>, b) :
              b \in CreateBodies}
    \cup {Req("update", "", <<>>, QueryOf([limit |-> Absent(<<>>)]), id, b) :
              id \in CrudIds, b \in UpdateBodies}
    \cup {Req("delete", "", <<>>, QueryOf([limit |-> Absent(<<>>)]), id, <<>>) :
              id \in CrudIds}

InitCrud ==
    /\ store \in {{PostDoc(i) : i \in 1..n} : n \in 0..MaxRecords}
    /\ request \in CrudRequests
    /\ hPc = "received"
    /\ buildArgs = <<>>
    /\ hQuery = <<>>
    /\ countArgs = <<>>
    /\ pending = {}
    /\ hData = <<>>
    /\ hTotal = 0
    /\ response = [kind |-> "none", error |-> "", body |-> NoBody]
    /\ reply = NotSent
    /\ nextId = FirstGenerated
    /\ deleted = {}
    /\ GateIdle
    /\ RegIdle
    /\ BqIdle
    /\ DocIdle
    /\ ErrIdle
    /\ OpsIdle

\* GET {base}/:id (75-99)
GetById ==
    /\ hPc = "received"
    /\ request.handler = "getById"
    /\ LET doc == FindById(store, request.id)
       IN  reply' = IF ~ValidId(request.id) THEN Thrown(CastErrorOf(request.id))
                    ELSE IF ~doc.found THEN NotFound
                    ELSE ReturnedDoc(doc.doc)
    /\ hPc' = "replied"
    /\ UNCHANGED <<store, request, buildArgs, hQuery, countArgs, pending,
                   hData, hTotal, response, nextId, deleted>>
    /\ UNCHANGED <<gateVars, regVars, bqVars, docVars, errVars, opVars>>

\* POST {base} (104-108): new model(body), doc.save(), which validates and
\* inserts, the insert failing on an _id already stored.
Create ==
    /\ hPc = "received"
    /\ request.handler = "create"
    /\ Has(request.body, "_id") \/ nextId < FirstGenerated + MaxGenerated
    /\ LET doc == NewDoc(request.body, GeneratedId(nextId))
       IN  /\ nextId' = IF Has(request.body, "_id") THEN nextId ELSE nextId + 1
           /\ IF Validate(request.body) # <<>>
              THEN /\ reply' = Thrown(ValidationErrorOf(request.body))
                   /\ UNCHANGED <<store, deleted>>
              ELSE IF IdOf(doc) \in IdsOf(store)
              THEN /\ reply' = Thrown(DuplicateKeyError)
                   /\ UNCHANGED <<store, deleted>>
              ELSE /\ reply' = ReturnedDoc(doc)
                   /\ store' = store \cup {doc}
                   /\ deleted' = deleted \ {IdOf(doc)}
    /\ hPc' = "replied"
    /\ UNCHANGED <<request, buildArgs, hQuery, countArgs, pending,
                   hData, hTotal, response>>
    /\ UNCHANGED <<gateVars, regVars, bqVars, docVars, errVars, opVars>>

\* PUT {base}/:id (113-131): Mongoose casts the id, runs the validators on
\* the update, then finds and updates.
Update ==
    /\ hPc = "received"
    /\ request.handler = "update"
    /\ LET u == FindByIdAndUpdate(store, request.id, request.body)
       IN  IF ~ValidId(request.id)
           THEN /\ reply' = Thrown(CastErrorOf(request.id))
                /\ UNCHANGED store
           ELSE IF Validate(request.body) # <<>>
           THEN /\ reply' = Thrown(ValidationErrorOf(request.body))
                /\ UNCHANGED store
           ELSE /\ reply' = IF u.found THEN ReturnedDoc(u.doc) ELSE NotFound
                /\ store' = u.docs
    /\ hPc' = "replied"
    /\ UNCHANGED <<request, buildArgs, hQuery, countArgs, pending,
                   hData, hTotal, response, nextId, deleted>>
    /\ UNCHANGED <<gateVars, regVars, bqVars, docVars, errVars, opVars>>

\* DELETE {base}/:id (136-150)
Delete ==
    /\ hPc = "received"
    /\ request.handler = "delete"
    /\ LET d == FindByIdAndDelete(store, request.id)
       IN  IF ~ValidId(request.id)
           THEN /\ reply' = Thrown(CastErrorOf(request.id))
                /\ UNCHANGED <<store, deleted>>
           ELSE /\ reply' = IF d.found THEN Success ELSE NotFound
                /\ store' = d.docs
                /\ deleted' = IF d.found THEN deleted \cup {request.id}
                              ELSE deleted
    /\ hPc' = "replied"
    /\ UNCHANGED <<request, buildArgs, hQuery, countArgs, pending,
                   hData, hTotal, response, nextId>>
    /\ UNCHANGED <<gateVars, regVars, bqVars, docVars, errVars, opVars>>

\* A list handler has returned or thrown: Fastify sends the body, or gives
\* the error to the error handler.
FastifyReplies ==
    /\ hPc \in {"done", "failed"}
    /\ reply' = IF response.kind = "ok" THEN ListReply(response.body)
                ELSE Thrown(NamedError(response.error))
    /\ hPc' = "replied"
    /\ UNCHANGED <<store, request, buildArgs, hQuery, countArgs, pending,
                   hData, hTotal, response, nextId, deleted>>
    /\ UNCHANGED <<gateVars, regVars, bqVars, docVars, errVars, opVars>>

\* The next request arrives.
NextRequest ==
    /\ hPc = "replied"
    /\ request' \in CrudRequests
    /\ hPc' = "received"
    /\ buildArgs' = <<>>
    /\ hQuery' = <<>>
    /\ countArgs' = <<>>
    /\ pending' = {}
    /\ hData' = <<>>
    /\ hTotal' = 0
    /\ response' = [kind |-> "none", error |-> "", body |-> NoBody]
    /\ reply' = NotSent
    /\ storeCalls' = <<>>
    /\ failure' = ""
    /\ UNCHANGED <<store, nextId, deleted, replies>>
    /\ UNCHANGED <<gateVars, regVars, bqVars, docVars, errVars>>

NextCrud ==
    \/ GetById \/ Create \/ Update \/ Delete
    \/ HandlerStart \/ ExecResolves \/ CountResolves \/ StoreRejects
    \/ HandlerReturns \/ FastifyReplies \/ NextRequest

SpecCrud == InitCrud /\ [][NextCrud]_vars

----------------------------------------------------------------------------
(* The handlers with their store calls as steps of their own: a call is    *)
(* issued, then completes with a result or a failure or stays incomplete,  *)
(* then the handler goes on and Fastify sends what it returned or threw    *)

\* What a store call of a handler by id or of POST is bound to fail with:
\* Mongoose casts the id, doc.save() and runValidators: true validate, and
\* the insert of a stored _id is refused by the index.
StoreFailureOf(req, docs, data) ==
    IF req.handler \in {"getById", "update", "delete"} /\ ~ValidId(req.id)
    THEN "CastError"
    ELSE IF req.handler \in {"create", "update"} /\ Validate(req.body) # <<>>
    THEN "ValidationError"
    ELSE IF req.handler = "create" /\ IdOf(data[1]) \in IdsOf(docs)
    THEN "DuplicateKey"
    ELSE ""

\* The error object of a failure.
ErrorOf(tag, req) ==
    CASE tag = "ValidationError" -> ValidationErrorOf(req.body)
      [] tag = "CastError" -> CastErrorOf(req.id)
      [] tag = "DuplicateKey" -> DuplicateKeyError
      [] OTHER -> NamedError(tag)

\* A mutant: the lookup of GET by id removes the record it finds.
StoreAfterConsumingRead(req, docs, data) ==
    CASE req.handler = "getById" -> FindByIdAndDelete(docs, req.id).docs
      [] req.handler = "create" -> docs \cup {data[1]}
      [] req.handler = "update" -> FindByIdAndUpdate(docs, req.id, req.body).docs
      [] req.handler = "delete" -> FindByIdAndDelete(docs, req.id).docs

\* The records of the store after the store call of a handler resolved.
StoreAfter(req, docs, data) ==
    CASE req.handler = "getById" -> docs
      [] req.handler = "create" -> docs \cup {data[1]}
      [] req.handler = "update" -> FindByIdAndUpdate(docs, req.id, req.body).docs
      [] req.handler = "delete" -> FindByIdAndDelete(docs, req.id).docs

\* What the store call of a handler resolves with: the document, or nothing
\* for null.
ResultOf(req, docs, data) ==
    CASE req.handler = "create" -> data
      [] req.handler = "update" ->
            LET u == FindByIdAndUpdate(docs, req.id, req.body)
            IN  IF u.found THEN <<u.doc>> ELSE <<>>
      [] OTHER ->
            LET d == FindById(docs, req.id)
            IN  IF d.found THEN <<d.doc>> ELSE <<>>

\* The handler returned without a value (the bare return of 95, 127, 146).
ReturnedNothing == [kind |-> "undefined", error |-> "", body |-> NoBody]

\* reply.code(404).send({error: 'NotFound', message: 'Resource not found'})
NotFoundSend == Send(404, ErrorBody("NotFound", "Resource not found"))

\* A mutant: the handler catches the failure of its store call and answers
\* as if nothing had been found.
ByIdOutcomeCatching(handler, fail, data) ==
    IF fail # "" \/ data = <<>>
    THEN [response |-> ReturnedNothing, sends |-> <<NotFoundSend>>]
    ELSE [response |-> Returned(IF handler = "delete" THEN [success |-> TRUE]
                                ELSE [doc |-> transformDocument(data[1])]),
          sends |-> <<>>]

\* A mutant: the not-found path sends 404 and goes on to return a body.
ByIdOutcomeFallingThrough(handler, fail, data) ==
    IF fail # ""
    THEN [response |-> Threw(fail), sends |-> <<>>]
    ELSE IF data = <<>>
    THEN [response |-> Returned([success |-> TRUE]), sends |-> <<NotFoundSend>>]
    ELSE [response |-> Returned(IF handler = "delete" THEN [success |-> TRUE]
                                ELSE [doc |-> transformDocument(data[1])]),
          sends |-> <<>>]

\* What a handler by id or POST does once its await is over (crud.js 88-98,
\* 106-107, 123-130, 142-149): the rejection is thrown on, a null result is
\* answered 404 by the handler itself, which then returns nothing, and a
\* document (or {success: true} for DELETE) is returned.
ByIdOutcome(handler, fail, data) ==
    IF fail # ""
    THEN [response |-> Threw(fail), sends |-> <<>>]
    ELSE IF data = <<>>
    THEN [response |-> ReturnedNothing, sends |-> <<NotFoundSend>>]
    ELSE [response |-> Returned(IF handler = "delete" THEN [success |-> TRUE]
                                ELSE [doc |-> transformDocument(data[1])]),
          sends |-> <<>>]

\* What Fastify sends once the handler has returned or thrown: the returned
\* value with status 200 unless the reply was sent already, the replies of
\* the error handler for an error, nothing for undefined after a sent reply.
FastifySendsFor(resp, req, sent) ==
    CASE resp.kind = "ok" -> IF sent = <<>> THEN <<Send(200, resp.body)>> ELSE <<>>
      [] resp.kind = "error" -> ErrorHandler(ErrorOf(resp.error, req)).sends
      [] OTHER -> <<>>

\* The requests: list requests with an absent, an empty and a malformed
\* sort, also next to a malformed reference, and the requests by id.
OpsQueries ==
    {QueryOf([limit |-> Absent(<<>>)]), QueryOf([sort |-> Given(<<>>)]),
     QueryOf([sort |-> Given(S_sortBad)]),
     QueryOf([sort |-> Given(S_sortBad), author |-> Given(S_zz)])}

OpsRequests ==
    {Req("list", "", <<>>, q, <<>>, <<>>) : q \in OpsQueries}
    \cup {Req("nestedList", "author", id, q, <<>>, <<>>) :
              id \in {S_u1, S_zz},
              q \in {QueryOf([limit |-> Absent(<<>>)]),
                     QueryOf([sort |-> Given(S_sortBad)])}}
    \cup {r \in CrudRequests : r.handler \notin {"list", "nestedList"}}

InitOps ==
    /\ store \in {{PostDoc(i) : i \in 1..n} : n \in 0..MaxRecords}
    /\ request \in OpsRequests
    /\ hPc = "received"
    /\ buildArgs = <<>>
    /\ hQuery = <<>>
    /\ countArgs = <<>>
    /\ pending = {}
    /\ hData = <<>>
    /\ hTotal = 0
    /\ response = [kind |-> "none", error |-> "", body |-> NoBody]
    /\ GateIdle
    /\ RegIdle
    /\ BqIdle
    /\ DocIdle
    /\ ErrIdle
    /\ reply = NotSent
    /\ nextId = FirstGenerated
    /\ deleted = {}
    /\ OpsIdle

\* The handler invokes its store operation and awaits it (crud.js 79-88,
\* 105-106, 117-121, 140); POST has built its document before (105).
CallStore ==
    /\ hPc = "received"
    /\ request.handler \in {"getById", "create", "update", "delete"}
    /\ request.handler = "create" =>
          Has(request.body, "_id") \/ nextId < FirstGenerated + MaxGenerated
    /\ hPc' = "calling"
    /\ pending' = {StoreOpOf(request.handler)}
    /\ storeCalls' = storeCalls \o StoreCallsOf(request.handler)
    /\ hData' = IF request.handler = "create"
                THEN <<NewDoc(request.body, GeneratedId(nextId))>>
                ELSE hData
    /\ nextId' = IF request.handler = "create" /\ ~Has(request.body, "_id")
                 THEN nextId + 1
                 ELSE nextId
    /\ UNCHANGED <<store, request, buildArgs, hQuery, countArgs, hTotal,
                   response, reply, deleted, failure, replies>>
    /\ UNCHANGED <<gateVars, regVars, bqVars, docVars, errVars>>

\* The store call resolves, with its effect on the store.
StoreCallResolves ==
    /\ hPc = "calling"
    /\ pending # {}
    /\ StoreFailureOf(request, store, hData) = ""
    /\ store' = StoreAfter(request, store, hData)
    /\ hData' = ResultOf(request, store, hData)
    /\ pending' = {}
    /\ UNCHANGED <<request, hPc, buildArgs, hQuery, countArgs, hTotal, response>>
    /\ UNCHANGED <<gateVars, regVars, bqVars, docVars, errVars, crudVars, opVars>>

\* The store call rejects: with the failure it is bound to, or with a
\* failure of the connection when it got as far as the store.
StoreCallFails ==
    /\ hPc = "calling"
    /\ pending # {}
    /\ LET bound == StoreFailureOf(request, store, hData)
       IN  failure' \in (IF bound \in {"CastError", "ValidationError"}
                         THEN {bound}
                         ELSE {"MongoError"} \cup ({bound} \ {""}))
    /\ pending' = {}
    /\ UNCHANGED <<store, request, hPc, buildArgs, hQuery, countArgs, hData,
                   hTotal, response, storeCalls, replies>>
    /\ UNCHANGED <<gateVars, regVars, bqVars, docVars, errVars, crudVars>>

\* The await is over: the handler throws, answers 404 or returns.
HandlerContinues ==
    /\ hPc = "calling"
    /\ pending = {}
    /\ LET o == ByIdOutcome(request.handler, failure, hData)
       IN  /\ response' = o.response
           /\ replies' = replies \o o.sends
           /\ hPc' = IF o.response.kind = "error" THEN "failed" ELSE "done"
    /\ UNCHANGED <<store, request, buildArgs, hQuery, countArgs, pending,
                   hData, hTotal, storeCalls, failure>>
    /\ UNCHANGED <<gateVars, regVars, bqVars, docVars, errVars, crudVars>>

\* The handler has returned or thrown: Fastify sends the returned value, or
\* gives the error to the error handler, which sends its reply.
FastifySends ==
    /\ hPc \in {"done", "failed"}
    /\ replies' = replies \o FastifySendsFor(response, request, replies)
    /\ hPc' = "replied"
    /\ UNCHANGED <<store, request, buildArgs, hQuery, countArgs, pending,
                   hData, hTotal, response, storeCalls, failure>>
    /\ UNCHANGED <<gateVars, regVars, bqVars, docVars, errVars, crudVars>>

\* The next request arrives.
NextOpsRequest ==
    /\ hPc = "replied"
    /\ request' \in OpsRequests
    /\ (request'.handler = "create" /\ ~Has(request'.body, "_id")) =>
          nextId < FirstGenerated + MaxGenerated
    /\ hPc' = "received"
    /\ buildArgs' = <<>>
    /\ hQuery' = <<>>
    /\ countArgs' = <<>>
    /\ pending' = {}
    /\ hData' = <<>>
    /\ hTotal' = 0
    /\ response' = [kind |-> "none", error |-> "", body |-> NoBody]
    /\ storeCalls' = <<>>
    /\ failure' = ""
    /\ replies' = <<>>
    /\ UNCHANGED <<store, crudVars>>
    /\ UNCHANGED <<gateVars, regVars, bqVars, docVars, errVars>>

NextOps ==
    \/ CallStore \/ StoreCallResolves \/ StoreCallFails \/ HandlerContinues
    \/ HandlerStart \/ ExecResolves \/ CountResolves \/ StoreRejects
    \/ HandlerReturns \/ FastifySends \/ NextOpsRequest

SpecOps == InitOps /\ [][NextOps]_vars

\* The steps of the store, of the handlers and of Fastify.  Node runs a
\* continuation once its promise has settled and Fastify replies once the
\* handler has ended; that every store call completes is the assumption
\* under which the answer to every request is claimed.
Progress ==
    \/ CallStore \/ StoreCallResolves \/ StoreCallFails \/ HandlerContinues
    \/ HandlerStart \/ ExecResolves \/ CountResolves \/ StoreRejects
    \/ HandlerReturns \/ FastifySends

SpecOpsFair == SpecOps /\ WF_vars(Progress)

----------------------------------------------------------------------------
(* A list request while other clients create and delete records: the       *)
(* effects of their POST and DELETE requests on the store fall before,     *)
(* between or after the two queries of the list request                    *)

RaceRequests ==
    {[handler |-> "list", field |-> "", refId |-> <<>>, query |-> q] :
        q \in {QueryOf([limit |-> Absent(<<>>)]),
               QueryOf([limit |-> Given(<<"1">>)]),
               QueryOf([limit |-> Given(<<"2">>), page |-> Given(<<"2">>)])}}
    \cup {[handler |-> "nestedList", field |-> "author", refId |-> S_u1,
           query |-> QueryOf([limit |-> Absent(<<>>)])]}

InitRace ==
    /\ store \in {{PostDoc(i) : i \in 1..n} : n \in 0..MaxRecords}
    /\ request \in RaceRequests
    /\ hPc = "received"
    /\ buildArgs = <<>>
    /\ hQuery = <<>>
    /\ countArgs = <<>>
    /\ pending = {}
    /\ hData = <<>>
    /\ hTotal = 0
    /\ response = [kind |-> "none", error |-> "", body |-> NoBody]
    /\ GateIdle
    /\ RegIdle
    /\ BqIdle
    /\ DocIdle
    /\ ErrIdle
    /\ CrudIdle
    /\ OpsIdle

\* The save of another client's POST (crud.js 105-106) inserts a record.
OtherClientCreates ==
    /\ hPc = "awaiting"
    /\ \E i \in 1..MaxRecords :
          /\ PostDoc(i) \notin store
          /\ store' = store \cup {PostDoc(i)}
    /\ UNCHANGED <<request, hPc, buildArgs, hQuery, countArgs, pending, hData,
                   hTotal, response>>
    /\ UNCHANGED <<gateVars, regVars, bqVars, docVars, errVars, crudVars, opVars>>

\* The findByIdAndDelete of another client's DELETE (140) removes a record.
OtherClientDeletes ==
    /\ hPc = "awaiting"
    /\ \E d \in store :
          store' = FindByIdAndDelete(store, IdOf(d)).docs
    /\ UNCHANGED <<request, hPc, buildArgs, hQuery, countArgs, pending, hData,
                   hTotal, response>>
    /\ UNCHANGED <<gateVars, regVars, bqVars, docVars, errVars, crudVars, opVars>>

NextRace ==
    \/ HandlerStart \/ ExecResolves \/ CountResolves \/ StoreRejects
    \/ HandlerReturns \/ OtherClientCreates \/ OtherClientDeletes

SpecRace == InitRace /\ [][NextRace]_vars

----------------------------------------------------------------------------
(* Claims about the Method Gate (checked under SpecGate) *)

\* The keys of gateAllowed equal to gateModel ignoring letter case, and the
\* first of them in key order.
GateMatches ==
    {i \in 1..Len(gateAllowed.entries) :
        ToLowerCase(gateAllowed.entries[i].key) = ToLowerCase(gateModel)}

GateMatch == CHOOSE i \in GateMatches : \A j \in GateMatches : i <= j

\* The arguments with the letter case of the name, or of the keys, changed.
ModelCaseVariants ==
    {m \in GateModels \cup GateKeys : ToLowerCase(m) = ToLowerCase(gateModel)}

KeyCaseVariants ==
    LET e == gateAllowed.entries
        n == Len(e)
    IN  { MethodsObject([i \in 1..n |-> [key |-> ks[i], val |-> e[i].val]]) :
            ks \in { ks \in [1..n -> GateKeys] :
                       /\ \A i \in 1..n : ToLowerCase(ks[i]) = ToLowerCase(e[i].key)
                       /\ \A i, j \in 1..n : i # j => ks[i] # ks[j] } }

C3_ListMembership ==
    gateResult.done =>
        /\ ( ~gateAllowed.isNull /\ GateMatches # {}
             /\ gateAllowed.entries[GateMatch].val.kind = "list" )
           => ( gateResult.value
                  = (gateMethod \in Range(gateAllowed.entries[GateMatch].val.list)) )
        /\ \A m \in ModelCaseVariants :
              isMethodAllowed(m, gateMethod, gateAllowed) = gateResult.value
        /\ gateAllowed.isNull \/
              \A a \in KeyCaseVariants :
                 isMethodAllowed(gateModel, gateMethod, a) = gateResult.value

\* C3 witness: the key differs from the model name in case, holds the empty
\* list, and the verb is denied.
C3_Witness ==
    /\ gateResult.done
    /\ ~gateAllowed.isNull
    /\ GateMatches # {}
    /\ gateAllowed.entries[GateMatch].key # gateModel
    /\ gateAllowed.entries[GateMatch].val = List(<<>>)
    /\ gateResult.value = FALSE

\* The cases of C22: no allow-list, an empty one, a model it does not name,
\* and an entry that is undefined or null.
Unrestricted ==
    \/ gateAllowed.isNull
    \/ gateAllowed.entries = <<>>
    \/ GateMatches = {}
    \/ gateAllowed.entries[GateMatch].val.kind \in {"undefined", "null"}

----------------------------------------------------------------------------
(* Claims about route registration (checked under SpecReg) *)

\* The registered routes of one handler kind set up for one model, in order.
RoutesOf(model, kinds) ==
    LET Mine(r) == r.model = model.collection /\ r.handler \in kinds
    IN  SelectSeq(routes, Mine)

CrudKinds == {"list", "getById", "create", "update", "delete"}

VerbPath(r) == <<r.verb, r.path>>

\* What the claim expects for one model: a set of <<verb, path>>.
ExpectedCrud(model) ==
    LET base == Prefix \o <<model.collection>>
        Allowed(v) == isMethodAllowed(model.collection, v, Methods)
    IN  {vp \in { <<"GET", base>>, <<"GET", base \o <<S_id>>>> } : Allowed("GET")}
        \cup {vp \in { <<"POST", base>> } : Allowed("POST")}
        \cup {vp \in { <<"PUT", base \o <<S_id>>>> } : Allowed("PUT")}
        \cup {vp \in { <<"DELETE", base \o <<S_id>>>> } : Allowed("DELETE")}

\* C1: after registration the CRUD routes of every model are exactly GET
\* {base} and GET {base}/:id iff GET is allowed, POST {base} iff POST is,
\* PUT {base}/:id iff PUT is, DELETE {base}/:id iff DELETE is, each once, and
\* no route exists for a verb the Method Gate denies.
C1_CrudRoutesGated ==
    regPc = "done" =>
        /\ \A k \in 1..Len(options.models) :
              LET model == options.models[k]
                  mine == RoutesOf(model, CrudKinds)
              IN  /\ {VerbPath(mine[i]) : i \in 1..Len(mine)} = ExpectedCrud(model)
                  /\ Len(mine) = Cardinality(ExpectedCrud(model))
        /\ \A i \in 1..Len(routes) :
              isMethodAllowed(routes[i].model, routes[i].verb, Methods)

\* C1 witness: registration ended with a model whose allow-list entry (under
\* a key of another letter case) permits POST and DELETE only.
C1_Witness ==
    /\ regPc = "done"
    /\ UserModel \in Range(options.models)
    /\ ~isMethodAllowed(S_users, "GET", Methods)
    /\ ~isMethodAllowed(S_users, "PUT", Methods)
    /\ LET mine == RoutesOf(UserModel, CrudKinds)
       IN  {mine[i].verb : i \in 1..Len(mine)} = {"POST", "DELETE"}

\* The paths of a model that carry a reference, in schema order.
RefPaths(model) ==
    LET HasRef(p) == p.ref # <<>>
    IN  SelectSeq(model.paths, HasRef)

C5_NestedUnderParentCollection ==
    ( /\ regPc = "done"
      /\ PostModel \in Range(options.models)
      /\ ~options.prefix.defined
      /\ isMethodAllowed(S_posts, "GET", Methods) )
    => \E i \in 1..Len(routes) :
          /\ routes[i].verb = "GET"
          /\ routes[i].path = <<S_api, UserModel.collection, S_refId, S_posts>>

\* C27: after createRoutes has run over a list of models, no verb and path
\* are registered twice; distinct reference fields of a model have distinct
\* nested paths, also when they reference the same model or models whose
\* names differ in letter case only.
C27_NoRouteTwice ==
    regPc = "done" =>
        \A i, j \in 1..Len(routes) :
            i # j => VerbPath(routes[i]) # VerbPath(routes[j])

----------------------------------------------------------------------------
(* Claims about the Query Builder (checked under SpecBq) *)

\* The calls of one kind in the query buildQuery returned, in order.
BqCalls(op) == SelectSeq(bqQuery.calls, LAMBDA c : c.op = op)

\* C10: buildQuery applies skip = (page - 1) * limit and limit = limit for
\* every page >= 1 and limit >= 1, with page = 1, limit = 10 and
\* sort = {_id: -1} for the options that are omitted; with no options at all
\* (or no arguments but the model) that is skip 0, limit 10.
C10_SkipAndLimit ==
    bqQuery.done =>
        LET opts == IF bqOptions.defined THEN bqOptions.value ELSE NoOptions
            page == IF opts.page.defined THEN opts.page.value ELSE Num(1)
            limit == IF opts.limit.defined THEN opts.limit.value ELSE Num(10)
        IN  /\ Len(BqCalls("skip")) = 1
            /\ Len(BqCalls("limit")) = 1
            /\ Len(BqCalls("sort")) = 1
            /\ (IsNum(page) /\ page.n >= 1 /\ IsNum(limit) /\ limit.n >= 1) =>
                  /\ BqCalls("skip")[1].arg = Num((page.n - 1) * limit.n)
                  /\ BqCalls("limit")[1].arg = Num(limit.n)
            /\ ~opts.sort.defined => BqCalls("sort")[1].arg = << <<"_id", -1>> >>
            /\ ~bqOptions.defined =>
                  /\ BqCalls("skip")[1].arg = Num(0)
                  /\ BqCalls("limit")[1].arg = Num(10)

\* C10 witness: page 3 and limit 20 were given and the query skips 40.
C10_Witness ==
    /\ bqQuery.done
    /\ bqOptions.defined
    /\ bqOptions.value.page = Given(Num(3))
    /\ bqOptions.value.limit = Given(Num(20))
    /\ BqCalls("skip")[1].arg = Num(40)
    /\ BqCalls("limit")[1].arg = Num(20)

\* C11: buildQuery adds an OR clause exactly when the search term is
\* non-empty and searchFields is non-empty; the clause then holds one
\* case-insensitive regex condition per search field, in the order of
\* searchFields, each on the search term, and the query still starts with
\* find(filters) on the base filters.
C11_SearchOrClause ==
    bqQuery.done =>
        LET opts == Default(bqOptions, NoOptions)
            fields == Default(opts.searchFields, <<>>)
            term == opts.search
            ors == BqCalls("or")
            wanted == term.defined /\ term.value # <<>> /\ fields # <<>>
        IN  /\ Len(ors) = (IF wanted THEN 1 ELSE 0)
            /\ wanted =>
                  /\ Len(ors[1].arg) = Len(fields)
                  /\ \A i \in 1..Len(fields) :
                        /\ ors[1].arg[i].field = fields[i]
                        /\ ors[1].arg[i].regex = term.value
                        /\ ors[1].arg[i].options = "i"
            /\ bqQuery.calls[1] = Call("find", Default(bqFilters, NoFilters))
            /\ Len(BqCalls("find")) = 1

\* A search over two fields on top of a base filter.
C11_Witness ==
    /\ bqQuery.done
    /\ bqFilters.defined /\ DOMAIN bqFilters.value = {"status"}
    /\ bqOptions.defined
    /\ bqOptions.value.search = Given(S_te)
    /\ bqOptions.value.searchFields = Given(<<"title", "status">>)
    /\ Len(BqCalls("or")) = 1

----------------------------------------------------------------------------
(* Claims about the list handlers (checked under SpecList) *)

\* The handler has called buildQuery and countDocuments.
QueriesIssued == hQuery # <<>>

\* C6: in the nested list handler the filters given to buildQuery and to
\* countDocuments always hold the reference field equal to cast(refId); the
\* other query-string filters are merged in unchanged, and one with the key
\* of the reference field is overridden.
C6_ReferenceFilterWins ==
    (request.handler = "nestedList" /\ QueriesIssued) =>
        LET filters == buildArgs.filters
            others == ((DOMAIN request.query) \ PagingKeys) \ {request.field}
        IN  /\ Cast(request.refId).ok
            /\ DOMAIN filters = others \cup {request.field}
            /\ filters[request.field] = Cast(request.refId).value
            /\ \A k \in others : filters[k] = Str(request.query[k])
            /\ CallsOf(hQuery, "find")[1].arg = filters
            /\ countArgs = filters

\* C6 witness: ?author=u1&status=on on /user/u2/posts was answered, with the
\* filter author = cast(u2).
C6_Witness ==
    /\ request.handler = "nestedList"
    /\ hPc = "done"
    /\ request.refId = S_u2
    /\ "author" \in DOMAIN request.query
    /\ request.query["author"] = S_u1
    /\ "status" \in DOMAIN request.query
    /\ buildArgs.filters["author"] = Oid(S_u2)

\* C7 (as claimed): in the list handler page, limit, sort, search and
\* populate never appear in the filter map, every other query-string key
\* does, the value of each key that is a reference field is replaced by the
\* field's cast of it and every other value is passed through unchanged.
C7_ListFilters ==
    (request.handler = "list" /\ QueriesIssued) =>
        LET filters == buildArgs.filters
            refs == Range(ReferenceFieldsOf(PostModel))
        IN  /\ DOMAIN filters = (DOMAIN request.query) \ PagingKeys
            /\ \A k \in DOMAIN filters :
                  IF k \in refs
                  THEN /\ Cast(request.query[k]).ok
                       /\ filters[k] = Cast(request.query[k]).value
                  ELSE filters[k] = Str(request.query[k])

\* C8 (as claimed): in every list and nested-list response page and limit
\* are the integer-parsed query values (defaults 1 and 10) and pages is
\* ceil(total / pagination.limit), for every limit that parseInt accepts.
C8_PagesFromParsedLimit ==
    response.kind = "ok" =>
        LET pg == response.body.pagination
            page == Prop(request.query, "page", <<>>)
            limit == Prop(request.query, "limit", <<>>)
        IN  /\ pg.page = (IF page.defined THEN ParseIntString(page.value) ELSE Num(1))
            /\ pg.limit = (IF limit.defined THEN ParseIntString(limit.value)
                           ELSE Num(10))
            /\ IsNum(pg.limit) =>
                  SameNumber(pg.pages, Ceil(Divide(pg.total, pg.limit)))

\* The requests that differ from the one served only in page, limit, sort,
\* search or populate.
PagingVariants ==
    { [request EXCEPT !.query =
          Merge(QueryOf(pg),
                [k \in (DOMAIN request.query) \ PagingKeys |-> request.query[k]])] :
        pg \in PagingParams }

\* The total another request would report against the same store.
TotalOf(req) ==
    CountDocuments(store, CountFilters(FiltersOf(req, PostModel).filters, req.query))

\* C9: two list requests against the same store state that differ only in
\* page, limit, sort, search or populate report the same total: the count
\* uses exactly the equality filters (after reference casting), not narrowed
\* by the search term or by pagination.
C9_TotalIgnoresPaging ==
    response.kind = "ok" =>
        LET keys == ((DOMAIN request.query) \ PagingKeys)
                        \ (IF request.handler = "nestedList" THEN {request.field}
                           ELSE {})
            Selected(d) ==
                /\ \A k \in keys : Has(d, k) /\ Get(d, k).s = request.query[k]
                /\ request.handler = "nestedList" =>
                      Get(d, request.field).s = request.refId
        IN  /\ countArgs = buildArgs.filters
            /\ (DOMAIN countArgs) \cap PagingKeys = {}
            /\ response.body.pagination.total
                  = Num(Cardinality({d \in store : Selected(d)}))
            /\ \A r \in PagingVariants :
                  (FiltersOf(r, PostModel).ok /\ SortQueryOf(r.query).ok)
                  => Num(TotalOf(r)) = response.body.pagination.total

\* C9 witness: a request with a search term and a page size was answered
\* with the total of the whole store and fewer documents than that.
C9_Witness ==
    /\ response.kind = "ok"
    /\ "search" \in DOMAIN request.query
    /\ "limit" \in DOMAIN request.query
    /\ Cardinality(store) = MaxRecords
    /\ response.body.pagination.total = Num(MaxRecords)
    /\ Len(response.body.data) < MaxRecords

\* The names of the calls of the built query, in order.
OpsOf(calls) == [i \in 1..Len(calls) |-> calls[i].op]

\* C23: buildQuery makes its calls in the order find(filters) with the
\* filters as given, the OR clause if any, one populate per field in the
\* given order (a string as a list of one field, none when populate is
\* absent), sort, skip, limit, and never executes the query.
C23_CallOrder ==
    bqQuery.done =>
        LET opts == Default(bqOptions, NoOptions)
            pop == opts.populate
            fields == IF pop.defined THEN pop.value.items ELSE <<>>
            ors == IF Len(BqCalls("or")) = 1 THEN <<"or">> ELSE <<>>
        IN  /\ OpsOf(bqQuery.calls) =
                  <<"find">> \o ors \o [i \in 1..Len(fields) |-> "populate"]
                  \o <<"sort", "skip", "limit">>
            /\ bqQuery.calls[1].arg = Default(bqFilters, NoFilters)
            /\ \A i \in 1..Len(fields) :
                  BqCalls("populate")[i].arg = fields[i]
            /\ (pop.defined /\ ~pop.value.isArray) =>
                  bqQuery.calls =
                      buildQuery(bqFilters,
                                 Given([opts EXCEPT !.populate =
                                          Given(PopArray(pop.value.items))]))
            /\ BqCalls("exec") = <<>>

\* A search and a populate of two fields together.
C23_Witness ==
    /\ bqQuery.done
    /\ bqOptions.defined
    /\ bqOptions.value.populate = Given(PopArray(<<"author", "tag">>))
    /\ Len(BqCalls("or")) = 1
    /\ Len(bqQuery.calls) = 7

----------------------------------------------------------------------------
(* Claims about non-numeric paging parameters (checked under SpecList) *)

\* A query-string parameter that is given and that parseInt reads as NaN.
NotNumeric(query, k) ==
    k \in DOMAIN query /\ ~IsNum(ParseIntString(query[k]))

\* C12: when page or limit of the query string is not numeric, the list
\* handlers give the Query Builder the default instead (page 1, limit 10), so
\* that skip and limit of the query are numbers, and the pagination of a
\* response holds the defaults and no not-a-number value.
C12_NonNumericFallsBack ==
    QueriesIssued =>
        /\ NotNumeric(request.query, "page") =>
                buildArgs.options.page = Given(Num(1))
        /\ NotNumeric(request.query, "limit") =>
                buildArgs.options.limit = Given(Num(10))
        /\ IsNum(CallsOf(hQuery, "skip")[1].arg)
        /\ IsNum(CallsOf(hQuery, "limit")[1].arg)
        /\ response.kind = "ok" =>
                /\ IsNum(response.body.pagination.page)
                /\ IsNum(response.body.pagination.limit)
                /\ IsNum(response.body.pagination.pages)

----------------------------------------------------------------------------
(* Claims about the Document Transformer (checked under SpecDoc) *)

\* C13: transformDocument returns null for a null record, and for every
\* other record an object with no `_id` key, no `__v` key, and an `id` that
\* is a string.
C13_TransformShape ==
    docOut.done =>
        IF docIn.isNull THEN docOut.isNull
        ELSE /\ ~docOut.isNull
             /\ "_id" \notin Keys(docOut.fields)
             /\ "__v" \notin Keys(docOut.fields)
             /\ Has(docOut.fields, "id")
             /\ Get(docOut.fields, "id").kind = "string"

\* C14: for every non-null record the output's `id` is the string form of
\* the record's `_id`, also when the record has a user field named `id`, and
\* the other user fields follow under their own names in source order,
\* identifier values as their strings and the other values unchanged.
C14_IdIsInternalIdentifier ==
    (docOut.done /\ ~docIn.isNull) =>
        LET user == SelectSeq(docIn.fields,
                              LAMBDA f : f.key \notin {"_id", "__v", "id"})
        IN  /\ ~docOut.isNull
            /\ docOut.fields[1] = Field("id", Str(Get(docIn.fields, "_id").s))
            /\ Tail(docOut.fields) =
                  [i \in 1..Len(user) |->
                      Field(user[i].key,
                            IF user[i].val.kind = "ObjectId"
                            THEN Str(user[i].val.s) ELSE user[i].val)]

----------------------------------------------------------------------------
(* Claims about the Error Translator (checked under SpecErr) *)

\* The conditions of the three known categories.
IsValidation(err) == err.name = "ValidationError"
IsCast(err) == err.name = "CastError"
IsDuplicate(err) == err.code = NumCode(11000)

\* C17: the Error Translator answers every error with exactly one reply,
\* that of the first case that matches in the order validation (400
\* ValidationError), identifier cast (400 InvalidId), duplicate key 11000
\* (409 DuplicateError), anything else (500 InternalError).
C17_FirstMatchOneReply ==
    errReplies.done =>
        /\ ~errReplies.threw
        /\ Len(errReplies.sends) = 1
        /\ LET sent == errReplies.sends[1]
               kind == sent.body.error
           IN  IF IsValidation(errArg) THEN sent.code = 400 /\ kind = "ValidationError"
               ELSE IF IsCast(errArg) THEN sent.code = 400 /\ kind = "InvalidId"
               ELSE IF IsDuplicate(errArg) THEN sent.code = 409 /\ kind = "DuplicateError"
               ELSE sent.code = 500 /\ kind = "InternalError"

\* C18: every error of none of the three categories is answered by the
\* same reply, 500 with {error: 'InternalError', message: 'An internal
\* server error occurred'}, as every other such error is: nothing of the
\* error's message, name, code or statusCode is in it.
C18_InternalErrorsAlike ==
    (errReplies.done /\ ~IsValidation(errArg) /\ ~IsCast(errArg)
        /\ ~IsDuplicate(errArg)) =>
        /\ errReplies.sends =
              <<Send(500, ErrorBody("InternalError",
                                    "An internal server error occurred"))>>
        /\ \A other \in ErrorInputs :
              (~IsValidation(other) /\ ~IsCast(other) /\ ~IsDuplicate(other)) =>
                  ErrorHandler(other).sends = errReplies.sends

\* An error of another name with a message, a code and a statusCode of its
\* own has been answered.
C18_Witness ==
    /\ errReplies.done
    /\ errArg.name = "MongoServerError"
    /\ errArg.code = NumCode(121)
    /\ errArg.statusCode = 400
    /\ errArg.message = "connect ECONNREFUSED"
    /\ Len(errReplies.sends) = 1

----------------------------------------------------------------------------
(* Claims about the handlers by id (checked under SpecCrud) *)

ByIdHandlers == {"getById", "update", "delete"}

\* A request by id is about to be handled.
ByIdReceived == hPc = "received" /\ request.handler \in ByIdHandlers

\* The reply to a PUT whose body the validators reject.
RejectedUpdate ==
    /\ request.handler = "update"
    /\ Validate(request.body) # <<>>
    /\ reply' = Thrown(ValidationErrorOf(request.body))

\* C15 as stated: GET, PUT and DELETE on {base}/:id for an id that matches
\* no stored record reply 404 {error: 'NotFound', message: 'Resource not
\* found'}, return no document, and leave the store as it is.
C15_NotFoundAnyId ==
    [][(ByIdReceived /\ request.id \notin IdsOf(store)) =>
          (reply' = NotFound /\ store' = store)]_vars

\* C15, amended: GET, PUT and DELETE on {base}/:id for a well-formed id that
\* matches no stored record (for PUT: with a body the validators accept)
\* reply 404 {error: 'NotFound', message: 'Resource not found'}, return no
\* document, and leave the store as it is; PUT does not create the record.
C15_NotFoundWellFormedId ==
    [][(/\ ByIdReceived
        /\ ValidId(request.id)
        /\ request.id \notin IdsOf(store)
        /\ request.handler = "update" => Validate(request.body) = <<>>) =>
          (reply' = NotFound /\ store' = store)]_vars

\* A PUT on a well-formed id of no record has been answered 404.
C15_Witness ==
    /\ hPc = "replied"
    /\ request.handler = "update"
    /\ ValidId(request.id)
    /\ request.id \notin IdsOf(store)
    /\ reply = NotFound

\* The identifiers of the documents of a list reply.
ListedIds(r) == {Get(r.body.data[i], "id").s : i \in 1..Len(r.body.data)}

\* What C16 says of every step, but for the reply to a request on a deleted
\* identifier: a delete answered {success: true} removes that record and no
\* other, a deleted identifier is not in the store until it is created
\* again, and no list reply holds it.
DeletedIsGone ==
    /\ deleted' \cap IdsOf(store') = {}
    /\ (hPc = "received" /\ request.handler = "delete" /\ reply' = Success) =>
          /\ FindById(store, request.id).found
          /\ request.id \in deleted'
          /\ store' = store \ {FindById(store, request.id).doc}
    /\ (hPc # "replied" /\ hPc' = "replied" /\ reply'.shape = "list") =>
          ListedIds(reply') \cap deleted' = {}

\* C16 as stated: after DELETE {base}/:id on a stored record replied
\* {success: true}, the record is not in the store, and until a record of
\* that id is created every GET, PUT or DELETE on the id replies 404 and no
\* list reply holds it; the other records are as they were.
C16_DeletedAlways404 ==
    [][/\ DeletedIsGone
       /\ (ByIdReceived /\ request.id \in deleted) => reply' = NotFound]_vars

\* C16, amended: as stated, except that a PUT on the deleted id whose body
\* the validators reject replies 400 ValidationError (the validators run
\* before the lookup); it returns no document and changes nothing either.
C16_DeletedStaysGone ==
    [][/\ DeletedIsGone
       /\ (ByIdReceived /\ request.id \in deleted) =>
             /\ reply' = NotFound \/ RejectedUpdate
             /\ store' = store]_vars

\* A GET on an identifier deleted before has been answered 404.
C16_Witness ==
    /\ hPc = "replied"
    /\ request.handler = "getById"
    /\ request.id \in deleted
    /\ reply = NotFound

\* The kinds of the error bodies.
ErrorKinds ==
    {"NotFound", "ValidationError", "InvalidId", "DuplicateError", "InternalError"}

\* C19: every reply that is not 2xx (the 404 of the handlers by id, the 400,
\* 409 and 500 of the Error Translator) has a body with an `error` of
\* NotFound, ValidationError, InvalidId, DuplicateError or InternalError and
\* a `message` string, and has `details` only when it is a ValidationError.
C19_ErrorBodyShape ==
    (reply.sent /\ reply.code \notin 200..299) =>
        /\ reply.shape = "error"
        /\ reply.code \in {400, 404, 409, 500}
        /\ reply.body.error \in ErrorKinds
        /\ reply.body.message \in STRING
        /\ reply.body.hasDetails => reply.body.error = "ValidationError"
        /\ reply.code = 404 <=> reply.body.error = "NotFound"

\* A POST of a rejected body has been answered 400 with its details.
C19_Witness ==
    /\ reply.sent
    /\ request.handler = "create"
    /\ reply.code = 400
    /\ reply.body.error = "ValidationError"
    /\ Len(reply.body.details) = 1

----------------------------------------------------------------------------
(* Claims about the two queries of the list handlers (checked under        *)
(* SpecList)                                                               *)

\* C20: the list handlers issue the data query and the count query
\* together, before awaiting either; whichever resolves first, a
\* {data, pagination} response is returned only when both have resolved and
\* holds their results; when either fails the handler returns no body and
\* throws the failure.
C20_BothAwaited ==
    /\ hPc \in {"received", "awaiting"} => response.kind = "none"
    /\ hPc = "awaiting" =>
          /\ hQuery # <<>>
          /\ pending \subseteq {"exec", "count"}
    /\ response.kind = "ok" =>
          /\ hPc = "done"
          /\ pending = {}
          /\ response.body = ListBody(hData, hTotal, request.query)
    /\ hPc = "failed" =>
          /\ response.kind = "error"
          /\ response.body = NoBody

\* The data query resolved with a document, then the count query failed.
C20_Witness ==
    /\ hPc = "failed"
    /\ pending = {}
    /\ hData # <<>>
    /\ response.kind = "error"

----------------------------------------------------------------------------
(* Claims about the store calls and the responses of the handlers (checked *)
(* under SpecOps)                                                          *)

\* C21: no handler recovers a failure of its store call: once the save,
\* the find-and-update, the find-and-remove, the lookup by id or a list query
\* has failed, the handler throws that failure, no 200 and no 404 is sent,
\* the client is sent what the error handler replies to that failure, and
\* the only response a handler sends itself is the 404 after a lookup by id
\* that resolved with nothing.
C21_FailurePropagates ==
    /\ (failure # "" /\ hPc \in {"done", "failed", "replied"}) =>
          /\ response = Threw(failure)
          /\ \A i \in 1..Len(replies) : replies[i].code \notin {200, 404}
          /\ hPc = "replied" =>
                replies = ErrorHandler(ErrorOf(failure, request)).sends
    /\ hPc = "done" => replies \in {<<>>, <<NotFoundSend>>}
    /\ \A i \in 1..Len(replies) :
          replies[i].code = 404 =>
              /\ request.handler \in {"getById", "update", "delete"}
              /\ failure = ""
              /\ hData = <<>>

\* The find-and-update of a PUT failed at the store and the client got 500.
C21_Witness ==
    /\ request.handler = "update"
    /\ failure = "MongoError"
    /\ hPc = "replied"
    /\ replies = <<Send(500, ErrorBody("InternalError",
                                       "An internal server error occurred"))>>

NoRepeat(calls) ==
    \A i, j \in 1..Len(calls) : i # j => calls[i] # calls[j]

\* C24: within one request each store operation is invoked at most once,
\* the list handlers invoking one data query and one count query and the
\* others their one operation, and once a store call has failed no further
\* store call is made for the request.
C24_SingleAttempt ==
    [][/\ NoRepeat(storeCalls')
       /\ storeCalls' \in {<<>>, StoreCallsOf(request'.handler)}
       /\ (failure # "" /\ hPc # "replied") => storeCalls' = storeCalls]_vars

\* The count query of a list request failed and the request was answered.
C24_Witness ==
    /\ request.handler = "list"
    /\ failure # ""
    /\ storeCalls = <<"exec", "countDocuments">>
    /\ hPc = "replied"

\* C26: a request is sent exactly one response, which is the body its
\* handler returned, the 404 the handler sent after a lookup that found
\* nothing, or the reply of the error handler to what the handler threw;
\* a handler that has sent the 404 returns no body.
C26_ExactlyOneResponse ==
    /\ Len(replies) <= 1
    /\ hPc \in {"received", "calling", "awaiting", "failed"} => replies = <<>>
    /\ (hPc = "done" /\ replies # <<>>) => response = ReturnedNothing
    /\ hPc = "replied" =>
          /\ Len(replies) = 1
          /\ replies[1] =
                CASE response.kind = "ok" -> Send(200, response.body)
                  [] response.kind = "error" ->
                        ErrorHandler(ErrorOf(response.error, request)).sends[1]
                  [] OTHER -> NotFoundSend

\* A DELETE of an identifier that is not stored was answered by the 404.
C26_Witness ==
    /\ request.handler = "delete"
    /\ hPc = "replied"
    /\ response = ReturnedNothing
    /\ replies = <<NotFoundSend>>

\* C29: the list, nested-list and get-by-id handlers leave the records of
\* the store as they are, whether the request succeeds, is answered 404 or
\* fails.
C29_GetLeavesStore ==
    [][(request.handler \in {"list", "nestedList", "getById"} /\ hPc # "replied")
          => store' = store]_vars

\* A GET by id found its record and was answered with it.
C29_Witness ==
    /\ request.handler = "getById"
    /\ hPc = "replied"
    /\ store # {}
    /\ Len(replies) = 1
    /\ replies[1].code = 200

\* The sort parameter is present, not empty, and is not valid JSON.
BadSort(req) ==
    /\ req.handler \in {"list", "nestedList"}
    /\ "sort" \in DOMAIN req.query
    /\ req.query["sort"] # <<>>
    /\ ~JsonParse(req.query["sort"]).ok

\* What C30 says of a request: no store query, the 500 of the error
\* handler, and the default sort for an absent or empty sort.
SortOutcome(req) ==
    /\ BadSort(req) =>
          /\ storeCalls = <<>>
          /\ pending = {}
          /\ hPc = "replied" =>
                replies = <<Send(500, ErrorBody("InternalError",
                                    "An internal server error occurred"))>>
    /\ ( /\ req.handler \in {"list", "nestedList"}
         /\ Prop(req.query, "sort", <<>>) \in {Absent(<<>>), Given(<<>>)}
         /\ hPc = "awaiting" ) =>
          /\ buildArgs.options.sort = Given(DefaultSort)
          /\ \E i \in 1..Len(hQuery) : hQuery[i] = Call("sort", DefaultSort)

\* C30 as stated: every list or nested-list request whose sort is present
\* and not valid JSON makes no store query and is answered 500
\* InternalError, and an absent or empty sort gives the sort {_id: -1}.
C30_BadSortIs500 == SortOutcome(request)

\* C30 amended: so it is for the requests whose reference filters (the
\* refId of a nested list) cast; when such a cast fails, it fails before the
\* sort is parsed, no store query is made and the answer is 400 InvalidId.
C30_BadSortIs500WhenCast ==
    /\ FiltersOf(request, PostModel).ok => SortOutcome(request)
    /\ (BadSort(request) /\ ~FiltersOf(request, PostModel).ok) =>
          /\ storeCalls = <<>>
          /\ pending = {}
          /\ hPc = "replied" =>
                replies = <<Send(400, ErrorBody("InvalidId",
                                    "Invalid ID format provided"))>>

\* A nested list request with a malformed sort was answered 500.
C30_Witness ==
    /\ request.handler = "nestedList"
    /\ BadSort(request)
    /\ FiltersOf(request, PostModel).ok
    /\ hPc = "replied"
    /\ replies[1].code = 500

\* C25 as stated: when every store call completes, every request is
\* answered in the end, and as long as a store call of the request has not
\* completed the request has no response.
C25_AnsweredIffCompleted ==
    /\ (hPc = "received") ~> (hPc = "replied" /\ Len(replies) = 1)
    /\ [](pending # {} => replies = <<>>)

\* C25 amended: when every store call completes, every request is answered
\* in the end; as long as a store call of the request has not completed and
\* none has failed the request has no response, while a list request one of
\* whose queries failed is answered with that failure although its other
\* query has not completed.
C25_AnsweredWhenCompletedOrFailed ==
    /\ (hPc = "received") ~> (hPc = "replied" /\ Len(replies) = 1)
    /\ []((pending # {} /\ failure = "") => replies = <<>>)
    /\ []((pending # {} /\ replies # <<>>) =>
             /\ request.handler \in {"list", "nestedList"}
             /\ replies = ErrorHandler(ErrorOf(failure, request)).sends)

\* A nested list request both of whose queries resolved was answered.
C25_Witness ==
    /\ request.handler = "nestedList"
    /\ storeCalls = <<"exec", "countDocuments">>
    /\ pending = {}
    /\ failure = ""
    /\ hPc = "replied"
    /\ replies[1].code = 200

----------------------------------------------------------------------------
(* Claims about a list request among the writes of other clients (checked  *)
(* under SpecRace)                                                         *)

\* C28: in every list response the number of items is at most
\* pagination.total and at most pagination.limit, also when records are
\* created and deleted by other clients between the data query and the
\* count query of the request.
C28_ItemsWithinTotalAndLimit ==
    response.kind = "ok" =>
        LET items == Len(response.body.data)
            pagination == response.body.pagination
        IN  /\ IsNum(pagination.total) /\ items <= pagination.total.n
            /\ IsNum(pagination.limit) /\ items <= pagination.limit.n

\* The same of the limit alone.
C28_ItemsWithinLimit ==
    response.kind = "ok" =>
        /\ IsNum(response.body.pagination.limit)
        /\ Len(response.body.data) <= response.body.pagination.limit.n

====
